---- MODULE Spec2Model ----
(***************************************************************************)
(* Roof-estimator webhook handlers (johnnyguy9/roof-estimator-bot).         *)
(*                                                                         *)
(* The repository holds ten iterations of one webhook handler.  Each is    *)
(* modelled as a handler action (the synchronous prefix of the handler up  *)
(* to its first await on an outbound call, or to its response) followed by *)
(* the continuations that run when the geocode, building-insight and CRM   *)
(* calls return.                                                           *)
(*                                                                         *)
(* Every JavaScript number is kept in halves (5 is 2.5, W(18) = 36 is 18)  *)
(* so that Math.ceil, Math.floor and the String(key) price look-ups see    *)
(* non-integers.                                                           *)
(***************************************************************************)
EXTENDS Integers, Sequences, FiniteSets, TLC

\* ------------------------------------------------------------------------
\* JavaScript values and coercions
\* ------------------------------------------------------------------------

\* Number.NaN / an undefined operand of a multiplication
NaN == -999999

\* null / undefined / field not carried in a response body
None == -888888

\* an exception leaving a function
Thrown == -777777

Undef == [k |-> "undef", n |-> 0]

Null == [k |-> "null", n |-> 0]

\* the empty string ""
EmptyStr == [k |-> "empty", n |-> 0]

\* a non-empty string without digits, such as "abc" or "123 Main St" stands
\* for an opaque text
Text == [k |-> "text", n |-> 0]

\* a string that starts with the integer h/2 and goes on with text: "2 Stories"
NumText(h) == [k |-> "numtext", n |-> h]

\* the JavaScript number h/2
Num(h) == [k |-> "num", n |-> h]

\* the numeric string of h/2: "18", "2.5", "0"
NumStr(h) == [k |-> "numstr", n |-> h]

Abs(x) == IF x < 0 THEN -x ELSE x

\* ToBoolean
Truthy(v) ==
  CASE v.k = "undef" -> FALSE
    [] v.k = "null" -> FALSE
    [] v.k = "empty" -> FALSE
    [] v.k = "num" -> v.n # 0
    [] OTHER -> TRUE

\* Number(v), in halves, or NaN
ToNumber(v) ==
  CASE v.k = "undef" -> NaN
    [] v.k = "null" -> 0
    [] v.k = "empty" -> 0
    [] v.k = "text" -> NaN
    [] v.k = "numtext" -> NaN
    [] OTHER -> v.n

\* the whole number i, in halves
W(i) == 2 * i

\* Math.ceil
Ceil(h) == IF h = NaN THEN NaN ELSE 2 * ((h + 1) \div 2)

\* Math.floor
Floor(h) == IF h = NaN THEN NaN ELSE 2 * (h \div 2)

\* a * b; exact, since one of the two factors is always a whole number
Mul(a, b) == IF a = NaN \/ b = NaN THEN NaN ELSE (a * b) \div 2

Min(a, b) == IF a <= b THEN a ELSE b

Max(a, b) == IF a >= b THEN a ELSE b

\* a || b on numbers
OrNum(a, b) == IF a = NaN \/ a = 0 THEN b ELSE a

\* !x for a number, null or undefined
Falsy(x) == x \in {None, NaN, 0}

\* JSON.stringify writes NaN as null
Json(x) == IF x = NaN THEN None ELSE x

\* Number(String(v).match(/\d+/)[0]): the first run of digits, or NaN when
\* there is none.  The sign and the fraction are not part of the run.
FirstDigits(v) ==
  CASE v.k \in {"num", "numstr", "numtext"} -> W(Abs(v.n) \div 2)
    [] OTHER -> NaN

\* parseInt(v, 10): leading integer, truncated toward zero
ParseInt(v) ==
  CASE v.k \in {"num", "numstr", "numtext"} ->
         IF v.n < 0 THEN -W(Abs(v.n) \div 2) ELSE W(v.n \div 2)
    [] OTHER -> NaN

\* a || b
Or(a, b) == IF Truthy(a) THEN a ELSE b

\* ------------------------------------------------------------------------
\* Job-type strings
\* ------------------------------------------------------------------------

JobAbsent == "<undefined>"

RoofAbsent == "<undefined>"

JobTypes == {JobAbsent, "retail", "insurance claim", " Insurance Claim "}

ToLowerCase(s) ==
  CASE s = " Insurance Claim " -> " insurance claim "
    [] s = "Insurance Claim" -> "insurance claim"
    [] s = "Metal" -> "metal"
    [] s = "Clay Tile" -> "clay tile"
    [] s = "Not Sure" -> "not sure"
    [] s = "Wood / Shake" -> "wood / shake"
    [] OTHER -> s

Trim(s) ==
  CASE s = " Insurance Claim " -> "Insurance Claim"
    [] s = " insurance claim " -> "insurance claim"
    [] OTHER -> s

\* s.includes(sub), for the strings the requests carry
Includes(s, sub) ==
  CASE sub = "insurance" -> s \in {"insurance claim", " insurance claim "}
    [] sub = "metal" -> s \in {"metal"}
    [] sub = "tile" -> s \in {"clay tile"}
    [] sub = "clay" -> s \in {"clay tile"}
    [] sub = "not sure" -> s \in {"not sure"}
    [] OTHER -> FALSE

\* roof types of the requests to the handler with roof-type pricing
RoofTypes_p000 == {RoofAbsent, "Metal", "Clay Tile", "Wood / Shake"}

\* ------------------------------------------------------------------------
\* Inputs
\* ------------------------------------------------------------------------

Methods == {"POST", "GET"}

\* req.body: an object, a string that is not JSON, or null
BodyKinds == {"object", "badjson", "null"}

SquaresSamples ==
  {Undef, Null, Text, Num(-4), Num(0), NumStr(0), Num(5), Num(36)}

StoriesSamples ==
  {Undef, Text, Num(0), Num(-4), Num(2), Num(4), Num(5), Num(6), Num(10),
   NumStr(4), NumText(4)}

AddressSamples == {Undef, Text}

ContactSamples == {Undef, Text}

\* environment: which of the three secrets are configured (all of them, or
\* all but one)
Envs ==
  {[apiKey |-> a, token |-> t, fieldKey |-> f] : a, t, f \in BOOLEAN} \
  {x \in [apiKey : BOOLEAN, token : BOOLEAN, fieldKey : BOOLEAN] :
     Cardinality({y \in {"a", "t", "f"} :
        (y = "a" /\ ~x.apiKey) \/ (y = "t" /\ ~x.token) \/ (y = "f" /\ ~x.fieldKey)}) > 1}

\* outcome of the geocode call
\*   throw   : fetch or json() rejects
\*   notOK   : status is not "OK", results is empty
\*   okEmpty : status "OK" with an empty results list
\*   ok      : status "OK" with a location
GeoOutcomes == {"throw", "notOK", "okEmpty", "ok"}

\* total area of the roof segments of a building-insight answer, in m2
AreaSamples == {0, 130, 139, 140, 200, 232, 233}

\* outcome of the building-insight call
\*   throw      : fetch or json() rejects
\*   httpError  : non-2xx status with an {error: ...} body
\*   noSegments : 2xx, no roofSegmentStats or an empty list
\*   segments   : 2xx, segments whose areas sum to m2; shape tells where the
\*                area of a segment is: "stats" (seg.stats.areaMeters2) or
\*                "direct" (seg.areaMeters2)
SolarOutcomes ==
  {[o |-> x, m2 |-> 0, shape |-> "direct"] : x \in {"throw", "httpError", "noSegments"}}
  \cup {[o |-> "segments", m2 |-> a, shape |-> s] : a \in AreaSamples, s \in {"stats", "direct"}}

\* outcome of the CRM contact update
CrmOutcomes == {"throw", "non2xx", "ok"}

\* ------------------------------------------------------------------------
\* State
\* ------------------------------------------------------------------------

VARIABLES
  variant,       \* which handler serves the request
  req,           \* the request: method, body kind and the fields of the body
  env,           \* process.env: which secrets are configured
  pc,            \* "idle", awaiting "geocode" / "solar" / "crm", or "done"
  calls,         \* the outbound calls made so far, in order
  geo,           \* outcome of the geocode call, "none" before it returns
  solar,         \* outcome of the building-insight call
  crm,           \* outcome of the CRM update call
  measured,      \* what the measurement function returned (None: null / not run)
  bufCount,      \* how many times the buffer function was applied
  finalSquares,  \* the square count the estimate is computed from
  stories,       \* the story count the price is selected by
  price,         \* the price per square looked up (NaN: undefined)
  total,         \* the total estimate computed
  crmValue,      \* the value sent to the CRM
  resp,          \* the response sent
  respCount,     \* how many responses were sent
  bufIn,         \* buffer check: the two raw square counts
  bufOut,        \* buffer check: per copy of the function, its two results
  resIn,         \* resolver check: the payload handed to resolveField
  resOut,        \* resolver check: per copy of resolveField, its result
  latestResults, \* callback bridge: the module-level result cache
  cbNow,         \* callback bridge: the last value Date.now() returned
  cbReq,         \* callback bridge: the last request handed to the handler
  cbRes,         \* callback bridge: what the handler answered to it
  cbAccepted,    \* callback bridge: per id, the record of its last accepted POST
  cbGot,         \* callback bridge: the last getResult call and what it returned
  addrIn,        \* address check: the address fields the body carries
  addrOut        \* address check: per copy of the resolution, its result

vars ==
  <<variant, req, env, pc, calls, geo, solar, crm, measured, bufCount,
    finalSquares, stories, price, total, crmValue, resp, respCount, bufIn, bufOut,
    resIn, resOut, latestResults, cbNow, cbReq, cbRes, cbAccepted, cbGot,
    addrIn, addrOut>>

reqVars == <<variant, req, env>>

bufVars == <<bufIn, bufOut>>

resVars == <<resIn, resOut>>

cbVars == <<latestResults, cbNow, cbReq, cbRes, cbAccepted, cbGot>>

addrVars == <<addrIn, addrOut>>

\* ------------------------------------------------------------------------
\* src/unnamed/part_006: the values of the callback bridge
\* ------------------------------------------------------------------------

\* largest value Date.now() returns
MaxNow == 2

\* a built-in method of Object.prototype
BuiltIn == [k |-> "function", n |-> 0]

\* Object.prototype itself
ObjectPrototype == [k |-> "prototype", n |-> 0]

\* the own keys of Object.prototype that the lookups below ask for
ObjectPrototypeKeys == {"constructor"}

\* the object { status, totalEstimate, message, receivedAt } the handler stores
Result(st, tot, msg, at) ==
  [k |-> "result", status |-> st, totalEstimate |-> tot, message |-> msg,
   receivedAt |-> at]

\* the keys a caller may name, "__proto__" apart
PlainKeys == {"job-1", "job-2", "constructor", "status"}

\* let latestResults = {}: no own property, the prototype is Object.prototype
EmptyObject == [own |-> [key \in PlainKeys |-> Undef], proto |-> ObjectPrototype]

\* p[key] for an object p on the prototype chain of the cache
Inherited(p, key) ==
  CASE p.k = "result" /\ key = "status" -> p.status
    [] p.k = "result" /\ key = "totalEstimate" -> p.totalEstimate
    [] p.k = "result" /\ key = "message" -> p.message
    [] p.k = "result" /\ key = "receivedAt" -> p.receivedAt
    [] key \in ObjectPrototypeKeys -> BuiltIn
    [] OTHER -> Undef

\* obj[key]: the accessor __proto__, an own property, or an inherited one
Get(obj, key) ==
  IF key = "__proto__" THEN obj.proto
  ELSE IF obj.own[key].k # "undef" THEN obj.own[key]
  ELSE Inherited(obj.proto, key)

\* obj[key] = val for an object val: the accessor __proto__ replaces the
\* prototype, every other key becomes an own property
Put(obj, key, val) ==
  IF key = "__proto__" THEN [obj EXCEPT !.proto = val]
  ELSE [obj EXCEPT !.own[key] = val]

\* req.body.callbackId is absent
IdAbsent == "<undefined>"

\* !callbackId
FalsyId(id) == id \in {IdAbsent, ""}

\* the callbackId values the callbacks carry
CallbackIds == {IdAbsent, "", "job-1", "job-2", "__proto__"}

\* the ids getResult is asked for
LookupIds == {"job-1", "job-2", "__proto__", "constructor", "status"}

\* the status, totalEstimate and message the callbacks carry
CallbackPayloads ==
  {[status |-> Text, totalEstimate |-> Num(19550), message |-> Undef],
   [status |-> Undef, totalEstimate |-> Undef, message |-> Text]}

NoPayload == [status |-> Undef, totalEstimate |-> Undef, message |-> Undef]

NoCallback == [method |-> "none", body |-> "none", callbackId |-> IdAbsent, payload |-> NoPayload]

\* sent counts the res.status(...).json(...) calls of the last invocation
NoCallbackRes == [status |-> 0, sent |-> 0]

NoneAccepted == [id \in LookupIds |-> Null]

NotAsked == [id |-> IdAbsent, val |-> Null]

\* ------------------------------------------------------------------------
\* Address resolution of the write-back handlers on its own
\* ------------------------------------------------------------------------

\* the fields of the body that the address is read from; a body is the set
\* of those fields that hold a non-empty string
AddressFields ==
  {"full_address", "customData.full_address", "contact.full_address",
   "address1", "customData.address", "address", "city", "state",
   "postal_code", "postalCode", "contact.address", "contact.address1"}

\* body?.f: the parts of the string (its own name stands for its text), or
\* no part when the field is undefined, null or ""
Field(body, f) == IF f \in body THEN <<f>> ELSE <<>>

\* a || b on strings and null
OrText(a, b) == IF a # <<>> THEN a ELSE b

\* the copies of the address resolution, by the handler that holds them
AddressCopies == {"p000", "p003", "p004", "p005b"}

BuildCopies == {"p000", "p003", "p005b"}

\* the resolution was not applied
NoAddrOut ==
  [address |-> [c \in AddressCopies |-> <<"none">>],
   built |-> [c \in BuildCopies |-> <<"none">>]]

NoReq ==
  [method |-> "none", body |-> "none", jobType |-> JobAbsent, roofType |-> RoofAbsent,
   stories |-> Undef, squares |-> Undef, address |-> Undef, contactId |-> Undef]

NoEnv == [apiKey |-> FALSE, token |-> FALSE, fieldKey |-> FALSE]

NoSolar == [o |-> "none", m2 |-> 0, shape |-> "direct"]

\* the copies of the buffer function, by the handler that holds them
BufferCopies == {"roof2", "roof3", "p000", "p003", "p004", "p005a", "p005b"}

NoBufOut == [c \in BufferCopies |-> <<None, None>>]

\* resolveField was not applied
NoResOut == [c \in {"roof2", "roof3"} |-> [k |-> "none", n |-> 0]]

NoResp ==
  [status |-> 0, mode |-> "none", ok |-> "absent", total |-> None,
   err |-> FALSE, detail |-> FALSE]

Init ==
  /\ variant = "none"
  /\ req = NoReq
  /\ env = NoEnv
  /\ pc = "idle"
  /\ calls = <<>>
  /\ geo = "none"
  /\ solar = NoSolar
  /\ crm = "none"
  /\ measured = None
  /\ bufCount = 0
  /\ finalSquares = None
  /\ stories = None
  /\ price = None
  /\ total = None
  /\ crmValue = None
  /\ resp = NoResp
  /\ respCount = 0
  /\ bufIn = <<0, 0>>
  /\ bufOut = NoBufOut
  /\ resIn = <<>>
  /\ resOut = NoResOut
  /\ latestResults = EmptyObject
  /\ cbNow = 1
  /\ cbReq = NoCallback
  /\ cbRes = NoCallbackRes
  /\ cbAccepted = NoneAccepted
  /\ cbGot = NotAsked
  /\ addrIn = {}
  /\ addrOut = NoAddrOut

\* ------------------------------------------------------------------------
\* Steps shared by the handlers
\* ------------------------------------------------------------------------

\* res.status(st).json({...}); the handler returns
Respond(st, mode, ok, tot, err, detail) ==
  /\ resp' = [status |-> st, mode |-> mode, ok |-> ok, total |-> Json(tot),
              err |-> err, detail |-> detail]
  /\ respCount' = respCount + 1
  /\ pc' = "done"

\* await fetch(...): the call goes out and the handler waits for it
Fetch(call) ==
  /\ calls' = Append(calls, call)
  /\ pc' = call
  /\ UNCHANGED <<resp, respCount>>

\* the handler receives request r under environment e
Receive(v, r, e) ==
  /\ pc = "idle"
  /\ variant' = v
  /\ req' = r
  /\ env' = e
  /\ UNCHANGED <<geo, solar, crm, bufVars, resVars, cbVars, addrVars>>

\* the local variables of the handler
Locals(m, bc, fs, st, pr, tot) ==
  /\ measured' = m
  /\ bufCount' = bc
  /\ finalSquares' = fs
  /\ stories' = st
  /\ price' = pr
  /\ total' = tot

NoLocals == UNCHANGED <<measured, bufCount, finalSquares, stories, price, total>>

\* the conversion rounding down instead of up
SquaresFromM2_floor(m2) == W((m2 * 107639) \div 1000000)

\* Math.ceil((totalM2 * 10.7639) / 100) for a whole number of square meters
SquaresFromM2(m2) == W((m2 * 107639 + 999999) \div 1000000)

\* the requests whose body, when it is an object, draws its fields from the
\* given sets; a body that is no object has no fields
Requests(J, R, St, Sq, A, C) ==
  {[method |-> "POST", body |-> "object", jobType |-> j, roofType |-> rt, stories |-> st,
    squares |-> sq, address |-> a, contactId |-> c] :
      j \in J, rt \in R, st \in St, sq \in Sq, a \in A, c \in C}
  \cup {[method |-> "GET", body |-> "object", jobType |-> j, roofType |-> rt,
          stories |-> Num(W(2)), squares |-> sq, address |-> a, contactId |-> c] :
      j \in J, rt \in R, sq \in Sq \cap {Undef, Num(W(18))}, a \in A, c \in C}
  \cup {[NoReq EXCEPT !.method = m, !.body = b] :
      m \in Methods, b \in BodyKinds \ {"object"}}

\* ------------------------------------------------------------------------
\* src/api/roof.js, second handler: handler + handleRetailEstimate, validating
\* ------------------------------------------------------------------------

\* resolveField on the first alias of a field that the body carries at its
\* root: the value, unless it is undefined, null or ""
directValue_roof2(v) == IF v.k \in {"undef", "null", "empty"} THEN Undef ELSE v

\* parseRequestBody: "invalid" or "object"
parseRequestBody_roof2(body) ==
  CASE body = "badjson" -> "invalid"
    [] body = "null" -> "invalid"
    [] OTHER -> "object"

\* validateSquares: the value, or NaN for {valid: false}
validateSquares_roof2(squares) ==
  LET value == ToNumber(squares)
  IN IF value = NaN \/ value <= 0 THEN NaN ELSE Ceil(value)

\* validateStories: the value, or NaN for {valid: false}
validateStories_roof2(st) ==
  LET value == IF Truthy(st) THEN ToNumber(st) ELSE W(1)
  IN IF value = NaN \/ value < W(1) \/ value > W(3) THEN NaN ELSE value

applySquareBuffer_roof2(squares) ==
  IF squares <= W(15) THEN squares + W(3)
  ELSE IF squares <= W(25) THEN squares + W(4)
  ELSE squares + W(5)

\* the table of the first handler (500 / 600 / 700) in place of the tiered one
PRICING_PER_SQUARE_roof2_old(key) ==
  CASE key = W(1) -> W(500)
    [] key = W(2) -> W(600)
    [] key = W(3) -> W(700)
    [] OTHER -> NaN

PRICING_PER_SQUARE_roof2(key) ==
  CASE key = W(1) -> W(500)
    [] key = W(2) -> W(575)
    [] key = W(3) -> W(650)
    [] OTHER -> NaN

measureStart_roof2(e) == IF ~e.apiKey THEN "null" ELSE "fetch"

measureGeo_roof2(o) ==
  CASE o = "throw" -> "null"
    [] o = "notOK" -> "null"
    [] o = "okEmpty" -> "null"
    [] OTHER -> "fetch"

measureSolar_roof2(o) ==
  CASE o.o = "throw" -> None
    [] o.o = "httpError" -> None
    [] o.o = "noSegments" -> None
    [] OTHER -> IF o.m2 = 0 THEN None ELSE SquaresFromM2(o.m2)

Catch_roof2 == Respond(500, "error", "false", None, TRUE, FALSE)

\* handleRetailEstimate from the validation of the stories on
Estimate_roof2(r, m, bc, fs) ==
  LET storiesValidation == validateStories_roof2(directValue_roof2(r.stories))
      pricePerSquare ==
        OrNum(PRICING_PER_SQUARE_roof2(storiesValidation), PRICING_PER_SQUARE_roof2(W(1)))
      totalPrice == Mul(fs, pricePerSquare)
  IN /\ UNCHANGED <<calls, crmValue>>
     /\ IF storiesValidation = NaN
        THEN /\ Respond(400, "invalid", "false", None, TRUE, FALSE)
             /\ Locals(m, bc, fs, None, None, None)
        ELSE /\ Respond(200, "retail-estimate", "true", totalPrice, FALSE, FALSE)
             /\ Locals(m, bc, fs, storiesValidation, pricePerSquare, totalPrice)

\* handleRetailEstimate once measureRoof returned m
Measured_roof2(r, m) ==
  IF Falsy(m)
  THEN /\ Respond(200, "manual_required", "false", None, FALSE, FALSE)
       /\ Locals(m, 0, None, None, None, None)
       /\ UNCHANGED <<calls, crmValue>>
  ELSE Estimate_roof2(r, m, 1, applySquareBuffer_roof2(m))

handleRetailEstimate_roof2(r, e) ==
  LET squares == directValue_roof2(r.squares)
      address == directValue_roof2(r.address)
  IN IF squares # Undef
     THEN IF validateSquares_roof2(squares) = NaN
          THEN /\ Respond(400, "invalid", "false", None, TRUE, FALSE)
               /\ NoLocals /\ UNCHANGED <<calls, crmValue>>
          ELSE Estimate_roof2(r, None, 0, validateSquares_roof2(squares))
     ELSE IF ~Truthy(address)
     THEN /\ Respond(400, "invalid", "false", None, TRUE, FALSE)
          /\ NoLocals /\ UNCHANGED <<calls, crmValue>>
     ELSE IF measureStart_roof2(e) = "null"
     THEN Measured_roof2(r, None)
     ELSE Fetch("geocode") /\ NoLocals /\ UNCHANGED crmValue

\* handleInsuranceJob builds the insurance answer and the handler returns it
\* to its caller; res is not used
handleInsuranceJob_roof2 ==
  /\ pc' = "done"
  /\ UNCHANGED <<resp, respCount>>

Handler_roof2(r, e) ==
  /\ Receive("roof2", r, e)
  /\ IF r.method # "POST"
     THEN /\ Respond(405, "method_not_allowed", "false", None, TRUE, FALSE)
          /\ NoLocals /\ UNCHANGED <<calls, crmValue>>
     ELSE IF parseRequestBody_roof2(r.body) = "invalid"
     THEN /\ Respond(400, "invalid", "false", None, TRUE, FALSE)
          /\ NoLocals /\ UNCHANGED <<calls, crmValue>>
     ELSE IF r.jobType = JobAbsent
     THEN /\ Respond(400, "invalid", "false", None, TRUE, FALSE)
          /\ NoLocals /\ UNCHANGED <<calls, crmValue>>
     ELSE IF Includes(ToLowerCase(Trim(r.jobType)), "insurance")
     THEN handleInsuranceJob_roof2 /\ NoLocals /\ UNCHANGED <<calls, crmValue>>
     ELSE handleRetailEstimate_roof2(r, e)

GeocodeReply_roof2(o) ==
  CASE measureGeo_roof2(o) = "null" -> Measured_roof2(req, None)
    [] measureGeo_roof2(o) = "throw" ->
         Catch_roof2 /\ NoLocals /\ UNCHANGED <<calls, crmValue>>
    [] OTHER -> Fetch("solar") /\ NoLocals /\ UNCHANGED crmValue

SolarReply_roof2(o) ==
  IF measureSolar_roof2(o) = Thrown
  THEN Catch_roof2 /\ NoLocals /\ UNCHANGED <<calls, crmValue>>
  ELSE Measured_roof2(req, measureSolar_roof2(o))

\* ------------------------------------------------------------------------
\* src/api/roof.js, third handler: inline helpers, contact.total_estimate_
\* ------------------------------------------------------------------------

directValue_roof3(v) == IF v.k \in {"undef", "null", "empty"} THEN Undef ELSE v

applySquareBuffer_roof3(sq) ==
  IF sq <= W(15) THEN sq + W(3)
  ELSE IF sq <= W(25) THEN sq + W(4)
  ELSE sq + W(5)

PRICING_PER_SQUARE_roof3(key) ==
  CASE key = W(1) -> W(500)
    [] key = W(2) -> W(575)
    [] key = W(3) -> W(650)
    [] OTHER -> NaN

\* Math.min(Math.max(Number(fields.stories) || 1, 1), 3)
stories_roof3(v) == Min(Max(OrNum(ToNumber(v), W(1)), W(1)), W(3))

measureStart_roof3(e) == IF ~e.apiKey THEN "null" ELSE "fetch"

measureGeo_roof3(o) ==
  CASE o = "throw" -> "null"
    [] o = "notOK" -> "null"
    [] o = "okEmpty" -> "null"
    [] OTHER -> "fetch"

\* no test of the total: an area of zero gives Math.ceil(0) = 0
measureSolar_roof3(o) ==
  CASE o.o = "throw" -> None
    [] o.o = "httpError" -> None
    [] o.o = "noSegments" -> None
    [] OTHER -> SquaresFromM2(o.m2)

Catch_roof3 == Respond(500, "error", "false", None, TRUE, TRUE)

Estimate_roof3(m, bc, fs, st, pricePerSquare) ==
  LET totalPrice == Mul(fs, pricePerSquare)
  IN /\ UNCHANGED <<calls, crmValue>>
     /\ Respond(200, "retail-estimate", "true", totalPrice, FALSE, FALSE)
     /\ Locals(m, bc, fs, st, pricePerSquare, totalPrice)

Measured_roof3(m, st, pricePerSquare) ==
  IF Falsy(m)
  THEN /\ Respond(200, "manual_required", "false", None, FALSE, FALSE)
       /\ Locals(m, 0, None, st, pricePerSquare, None)
       /\ UNCHANGED <<calls, crmValue>>
  ELSE Estimate_roof3(m, 1, applySquareBuffer_roof3(m), st, pricePerSquare)

Handler_roof3(r, e) ==
  /\ Receive("roof3", r, e)
  /\ IF r.method # "POST"
     THEN /\ Respond(405, "method_not_allowed", "false", None, TRUE, FALSE)
          /\ NoLocals /\ UNCHANGED <<calls, crmValue>>
     ELSE IF r.body = "badjson"
     THEN /\ Respond(400, "invalid", "false", None, TRUE, FALSE)
          /\ NoLocals /\ UNCHANGED <<calls, crmValue>>
     ELSE IF r.body = "null"
     THEN /\ Respond(400, "invalid", "false", None, TRUE, FALSE)
          /\ NoLocals /\ UNCHANGED <<calls, crmValue>>
     ELSE IF r.jobType = JobAbsent
     THEN /\ Respond(400, "invalid", "false", None, TRUE, FALSE)
          /\ NoLocals /\ UNCHANGED <<calls, crmValue>>
     ELSE IF Includes(ToLowerCase(Trim(r.jobType)), "insurance")
     THEN /\ Respond(200, "insurance", "true", None, FALSE, FALSE)
          /\ NoLocals /\ UNCHANGED <<calls, crmValue>>
     ELSE
       LET squares == directValue_roof3(r.squares)
           address == directValue_roof3(r.address)
           st == stories_roof3(directValue_roof3(r.stories))
           pricePerSquare == PRICING_PER_SQUARE_roof3(st)
       IN IF squares # Undef
          THEN Estimate_roof3(None, 0, Ceil(ToNumber(squares)), st, pricePerSquare)
          ELSE IF ~Truthy(address)
          THEN /\ Respond(400, "invalid", "false", None, TRUE, FALSE)
               /\ Locals(None, 0, None, st, pricePerSquare, None)
               /\ UNCHANGED <<calls, crmValue>>
          ELSE IF measureStart_roof3(e) = "null"
          THEN Measured_roof3(None, st, pricePerSquare)
          ELSE /\ Fetch("geocode")
               /\ Locals(None, 0, None, st, pricePerSquare, None)
               /\ UNCHANGED crmValue

GeocodeReply_roof3(o) ==
  CASE measureGeo_roof3(o) = "null" -> Measured_roof3(None, stories, price)
    [] measureGeo_roof3(o) = "throw" ->
         Catch_roof3 /\ NoLocals /\ UNCHANGED <<calls, crmValue>>
    [] OTHER -> Fetch("solar") /\ NoLocals /\ UNCHANGED crmValue

SolarReply_roof3(o) ==
  IF measureSolar_roof3(o) = Thrown
  THEN Catch_roof3 /\ NoLocals /\ UNCHANGED <<calls, crmValue>>
  ELSE Measured_roof3(measureSolar_roof3(o), stories, price)

\* ------------------------------------------------------------------------
\* src/api/roof.js, first handler: resolve(keys), constant measurement
\* ------------------------------------------------------------------------

\* resolve(keys) on a key the body carries: the value unless undefined or ""
resolve_roof1(v) == IF v.k \in {"undef", "empty"} THEN Undef ELSE v

\* PRICE_PER_SQUARE[stories]: the property named String(stories)
PRICE_PER_SQUARE_roof1(v) ==
  CASE v.k \in {"num", "numstr"} /\ v.n = W(1) -> W(500)
    [] v.k \in {"num", "numstr"} /\ v.n = W(2) -> W(600)
    [] v.k \in {"num", "numstr"} /\ v.n = W(3) -> W(700)
    [] OTHER -> NaN

\* measure(addr): "DO NOT TOUCH MAP LOGIC", a constant
measure_roof1(addr) == W(20)

Catch_roof1 == Respond(200, "fallback", "true", None, TRUE, TRUE)

Handler_roof1(r, e) ==
  /\ Receive("roof1", r, e)
  /\ UNCHANGED <<calls, crmValue>>
  /\ IF r.body = "badjson"
     THEN Catch_roof1 /\ NoLocals
     ELSE
       LET jobType == ToLowerCase(IF r.jobType = JobAbsent THEN "retail" ELSE r.jobType)
           st == Or(resolve_roof1(r.stories), NumStr(W(1)))
           squaresInput == resolve_roof1(r.squares)
           address == resolve_roof1(r.address)
           manual == Truthy(squaresInput) /\ ToNumber(squaresInput) # NaN
           measuredSquares ==
             IF manual THEN Ceil(ToNumber(squaresInput)) ELSE Ceil(measure_roof1(address))
           pricePerSquare ==
             OrNum(PRICE_PER_SQUARE_roof1(st), PRICE_PER_SQUARE_roof1(NumStr(W(1))))
           totalEstimate == Mul(measuredSquares, pricePerSquare)
       IN IF Includes(jobType, "insurance")
          THEN Respond(200, "insurance", "true", None, FALSE, FALSE) /\ NoLocals
          ELSE /\ Respond(200, "retail-estimate", "true", totalEstimate, FALSE, FALSE)
               /\ Locals(IF manual THEN None ELSE measure_roof1(address), 0,
                         measuredSquares,
                         IF PRICE_PER_SQUARE_roof1(st) # NaN THEN st.n ELSE W(1),
                         pricePerSquare, totalEstimate)

\* ------------------------------------------------------------------------
\* src/unnamed/part_001: roof-type price table, demo measurement
\* ------------------------------------------------------------------------

\* roof types of the requests to this handler
RoofTypes_p001 == {RoofAbsent, "Metal", "Clay Tile", "Not Sure", "Wood / Shake"}

\* priceTable[roofType][stories]
priceTable_p001(roofType, st) ==
  CASE roofType = "Asphalt / Composite Shingle" ->
         (CASE st = W(1) -> W(500) [] st = W(2) -> W(550) [] st = W(3) -> W(600) [] OTHER -> NaN)
    [] roofType = "Metal" ->
         (CASE st = W(1) -> W(950) [] st = W(2) -> W(1000) [] st = W(3) -> W(1050) [] OTHER -> NaN)
    [] roofType = "Tile / Clay / Concrete" ->
         (CASE st = W(1) -> W(1200) [] st = W(2) -> W(1300) [] st = W(3) -> W(1400) [] OTHER -> NaN)
    [] roofType = "Wood / Shake" ->
         (CASE st = W(1) -> W(1200) [] st = W(2) -> W(1300) [] st = W(3) -> W(1400) [] OTHER -> NaN)
    [] roofType = "Flat / TPO" ->
         (CASE st = W(1) -> W(1000) [] st = W(2) -> W(1100) [] st = W(3) -> W(1200) [] OTHER -> NaN)
    [] OTHER -> NaN

\* priceTable[roofType] is defined
hasRoofPricing_p001(roofType) ==
  roofType \in {"Asphalt / Composite Shingle", "Metal", "Tile / Clay / Concrete",
                "Wood / Shake", "Flat / TPO"}

\* fakeMeasureRoofFromAddress: a constant
fakeMeasureRoofFromAddress_p001(address) == W(20)

Catch_p001 == Respond(500, "error", "false", None, TRUE, TRUE)

Handler_p001(r, e) ==
  /\ Receive("p001", r, e)
  /\ UNCHANGED <<calls, crmValue>>
  /\ IF r.method # "POST"
     THEN Respond(200, "online", "true", None, FALSE, FALSE) /\ NoLocals
     ELSE IF r.body = "badjson"
     THEN Respond(400, "invalid", "false", None, TRUE, FALSE) /\ NoLocals
     ELSE
       LET jobType == IF r.jobType = JobAbsent THEN "" ELSE Trim(r.jobType)
           roofType == IF r.roofType = RoofAbsent THEN "" ELSE Trim(r.roofType)
           st == ParseInt(r.stories)
           squaresRaw == r.squares
           address == r.address
           manual == squaresRaw.k \notin {"undef", "null", "empty"}
           sq == ToNumber(squaresRaw)
           finalSq ==
             IF manual THEN Ceil(sq) ELSE Ceil(fakeMeasureRoofFromAddress_p001(address))
           pricePerSquare == priceTable_p001(roofType, st)
           totalPrice == Mul(finalSq, pricePerSquare)
       IN IF jobType = ""
          THEN Respond(400, "invalid", "false", None, TRUE, FALSE) /\ NoLocals
          ELSE IF Includes(ToLowerCase(jobType), "insurance")
          THEN Respond(200, "insurance", "true", None, FALSE, FALSE) /\ NoLocals
          ELSE IF roofType = ""
          THEN Respond(400, "invalid", "false", None, TRUE, FALSE) /\ NoLocals
          ELSE IF Includes(ToLowerCase(roofType), "not sure")
          THEN Respond(400, "invalid", "false", None, TRUE, FALSE) /\ NoLocals
          ELSE IF st \notin {W(1), W(2), W(3)}
          THEN Respond(400, "invalid", "false", None, TRUE, FALSE) /\ NoLocals
          ELSE IF ~hasRoofPricing_p001(roofType)
          THEN Respond(400, "invalid", "false", None, TRUE, FALSE) /\ NoLocals
          ELSE IF manual /\ (sq = NaN \/ sq <= 0)
          THEN Respond(400, "invalid", "false", None, TRUE, FALSE) /\ NoLocals
          ELSE IF ~manual /\ ~Truthy(address)
          THEN Respond(400, "invalid", "false", None, TRUE, FALSE) /\ NoLocals
          ELSE /\ Respond(200, "retail-estimate", "true", totalPrice, FALSE, FALSE)
               /\ Locals(IF manual THEN None ELSE fakeMeasureRoofFromAddress_p001(address),
                         0, finalSq, st, pricePerSquare, totalPrice)

\* ------------------------------------------------------------------------
\* src/unnamed/part_002: findField, demo measurement
\* ------------------------------------------------------------------------

\* roofPricing[stories]: the property named String(stories)
roofPricing_p002(v) ==
  CASE v.k \in {"num", "numstr"} /\ v.n = W(1) -> W(450)
    [] v.k \in {"num", "numstr"} /\ v.n = W(2) -> W(550)
    [] v.k \in {"num", "numstr"} /\ v.n = W(3) -> W(650)
    [] OTHER -> NaN

fakeMeasureRoofFromAddress_p002(addr) == W(20)

Catch_p002 == Respond(500, "error", "false", None, TRUE, TRUE)

Handler_p002(r, e) ==
  /\ Receive("p002", r, e)
  /\ UNCHANGED <<calls, crmValue>>
  /\ IF r.body = "badjson"
     THEN Respond(400, "invalid", "false", None, TRUE, FALSE) /\ NoLocals
     ELSE IF r.body = "null"
     THEN Respond(400, "invalid", "false", None, TRUE, FALSE) /\ NoLocals
     ELSE IF r.jobType = JobAbsent
     THEN Respond(400, "invalid", "false", None, TRUE, FALSE) /\ NoLocals
     ELSE
       LET st == r.stories
           squares == r.squares
           address == r.address
           sq == ToNumber(squares)
           finalSq ==
             IF Truthy(squares) THEN Ceil(sq)
             ELSE Ceil(fakeMeasureRoofFromAddress_p002(address))
           pricePerSquare == roofPricing_p002(st)
           totalPrice == Mul(finalSq, pricePerSquare)
       IN IF Truthy(squares) /\ (sq = NaN \/ sq <= 0)
          THEN Respond(400, "invalid", "false", None, TRUE, FALSE) /\ NoLocals
          ELSE IF ~Truthy(squares) /\ ~Truthy(address)
          THEN Respond(400, "invalid", "false", None, TRUE, FALSE) /\ NoLocals
          ELSE /\ Respond(200, "retail-estimate", "true", totalPrice, FALSE, FALSE)
               /\ Locals(IF Truthy(squares) THEN None
                         ELSE fakeMeasureRoofFromAddress_p002(address),
                         0, finalSq,
                         IF st.k \in {"num", "numstr"} THEN st.n ELSE NaN,
                         pricePerSquare, totalPrice)

\* ------------------------------------------------------------------------
\* src/unnamed/part_005, first handler: pricing only, "contact.total_estimate"
\* ------------------------------------------------------------------------

\* the buffer with strict comparisons
bufferSquares_p005a_strict(sq) ==
  IF sq < W(15) THEN sq + W(3)
  ELSE IF sq < W(25) THEN sq + W(4)
  ELSE sq + W(5)

bufferSquares_p005a(sq) ==
  IF sq <= W(15) THEN sq + W(3)
  ELSE IF sq <= W(25) THEN sq + W(4)
  ELSE sq + W(5)

\* the same with the one-story price for every story count
PRICE_PER_SQUARE_p005a_flat(key) ==
  CASE key \in {W(1), W(2), W(3)} -> W(500)
    [] OTHER -> NaN

PRICE_PER_SQUARE_p005a(key) ==
  CASE key = W(1) -> W(500)
    [] key = W(2) -> W(575)
    [] key = W(3) -> W(650)
    [] OTHER -> NaN

\* Number(body?.stories) || 1
stories_p005a(v) == OrNum(ToNumber(v), W(1))

measureStart_p005a(e) == IF ~e.apiKey THEN "null" ELSE "fetch"

\* the status of the geocode answer is not read, only its results
measureGeo_p005a(o) ==
  CASE o = "throw" -> "null"
    [] o = "notOK" -> "null"
    [] o = "okEmpty" -> "null"
    [] OTHER -> "fetch"

measureSolar_p005a(o) ==
  CASE o.o = "throw" -> None
    [] o.o = "httpError" -> None
    [] o.o = "noSegments" -> None
    [] OTHER -> IF o.m2 = 0 THEN None ELSE SquaresFromM2(o.m2)

Catch_p005a == Respond(200, "dotted_null", "absent", None, FALSE, FALSE)

Estimate_p005a(m, bc, squares, st) ==
  LET pricePerSquare == OrNum(PRICE_PER_SQUARE_p005a(st), PRICE_PER_SQUARE_p005a(W(1)))
      totalEstimate == Mul(squares, pricePerSquare)
  IN /\ UNCHANGED <<calls, crmValue>>
     /\ Respond(200, "dotted", "absent", totalEstimate, FALSE, FALSE)
     /\ Locals(m, bc, squares, st, pricePerSquare, totalEstimate)

Measured_p005a(m, st) ==
  IF Falsy(m)
  THEN /\ Respond(200, "dotted_null", "absent", None, FALSE, FALSE)
       /\ Locals(m, 0, None, st, None, None)
       /\ UNCHANGED <<calls, crmValue>>
  ELSE Estimate_p005a(m, 1, bufferSquares_p005a(m), st)

Handler_p005a(r, e) ==
  /\ Receive("p005a", r, e)
  /\ IF r.body = "badjson"
     THEN /\ Respond(200, "dotted_null", "absent", None, FALSE, FALSE)
          /\ NoLocals /\ UNCHANGED <<calls, crmValue>>
     ELSE
       LET st == stories_p005a(r.stories)
           providedSquares == ToNumber(r.squares)
           address == r.address
       IN IF providedSquares # NaN /\ providedSquares > 0
          THEN Estimate_p005a(None, 0, Ceil(providedSquares), st)
          ELSE IF Truthy(address)
          THEN IF measureStart_p005a(e) = "null"
               THEN Measured_p005a(None, st)
               ELSE /\ Fetch("geocode")
                    /\ Locals(None, 0, None, st, None, None)
                    /\ UNCHANGED crmValue
          ELSE /\ Respond(200, "dotted_null", "absent", None, FALSE, FALSE)
               /\ Locals(None, 0, None, st, None, None)
               /\ UNCHANGED <<calls, crmValue>>

GeocodeReply_p005a(o) ==
  CASE measureGeo_p005a(o) = "null" -> Measured_p005a(None, stories)
    [] measureGeo_p005a(o) = "throw" ->
         Catch_p005a /\ NoLocals /\ UNCHANGED <<calls, crmValue>>
    [] OTHER -> Fetch("solar") /\ NoLocals /\ UNCHANGED crmValue

SolarReply_p005a(o) ==
  IF measureSolar_p005a(o) = Thrown
  THEN Catch_p005a /\ NoLocals /\ UNCHANGED <<calls, crmValue>>
  ELSE Measured_p005a(measureSolar_p005a(o), stories)

\* ------------------------------------------------------------------------
\* src/unnamed/part_003: write-back handler (PUT, customField)
\* ------------------------------------------------------------------------

normalizeStories_p003(val) ==
  IF ~Truthy(val) THEN W(1)
  ELSE LET n == IF FirstDigits(val) # NaN THEN FirstDigits(val) ELSE ToNumber(val)
       IN IF n = NaN THEN W(1) ELSE Min(Max(n, W(1)), W(3))

\* normalizeSquares rounding down instead of up
normalizeSquares_p003_floor(val) ==
  LET n == ToNumber(val)
  IN IF n = NaN \/ n <= 0 THEN None ELSE Floor(n)

normalizeSquares_p003(val) ==
  LET n == ToNumber(val)
  IN IF n = NaN \/ n <= 0 THEN None ELSE Ceil(n)

bufferSquares_p003(sq) ==
  IF sq <= W(15) THEN sq + W(3)
  ELSE IF sq <= W(25) THEN sq + W(4)
  ELSE sq + W(5)

\* Number(num.toFixed(2)): a number of halves has at most one decimal
roundCurrency_p003(num) == IF num = NaN THEN NaN ELSE (num * 100) \div 100

PRICE_PER_SQUARE_p003(key) ==
  CASE key = W(1) -> W(500)
    [] key = W(2) -> W(575)
    [] key = W(3) -> W(650)
    [] OTHER -> NaN

\* measureRoofSquaresFromSolar up to the geocode call: "null" or "fetch"
measureStart_p003(e) == IF ~e.apiKey THEN "null" ELSE "fetch"

\* the measurement without the test of the geocode status
measureGeo_p003_noStatus(o) ==
  CASE o = "throw" -> "null"
    [] o = "okEmpty" -> "null"
    [] OTHER -> "fetch"

\* measureRoofSquaresFromSolar from the geocode answer to the building-insight
\* call: "null" (returns null), "throw" (the exception leaves the function)
\* or "fetch" (the building-insight call is made)
measureGeo_p003(o) ==
  CASE o = "throw" -> "null"
    [] o = "notOK" -> "null"
    [] o = "okEmpty" -> "null"
    [] OTHER -> "fetch"

\* measureRoofSquaresFromSolar from the building-insight answer on: the
\* squares, None for null, or Thrown
measureSolar_p003(o) ==
  CASE o.o = "throw" -> None
    [] o.o = "httpError" -> None
    [] o.o = "noSegments" -> None
    [] OTHER -> IF o.m2 = 0 THEN None ELSE SquaresFromM2(o.m2)

\* updateGhlTotalEstimate up to the PUT
updateGhlStart_p003(e) ==
  IF ~e.token THEN "throw" ELSE IF ~e.fieldKey THEN "throw" ELSE "fetch"

\* the write-back without the test of resp.ok
updateGhlDone_p003_noCheck(o) ==
  CASE o = "throw" -> "throw"
    [] OTHER -> "data"

\* updateGhlTotalEstimate from the answer of the PUT on
updateGhlDone_p003(o) ==
  CASE o = "throw" -> "throw"
    [] o = "non2xx" -> "throw"
    [] OTHER -> "data"

Catch_p003 == Respond(200, "error", "false", None, TRUE, TRUE)

\* pricing and the start of the write-back
Estimate_p003(e, m, bc, fs, st) ==
  LET pricePerSquare == OrNum(PRICE_PER_SQUARE_p003(st), PRICE_PER_SQUARE_p003(W(1)))
      totalEstimate == roundCurrency_p003(Mul(fs, pricePerSquare))
  IN /\ Locals(m, bc, fs, st, pricePerSquare, totalEstimate)
     /\ IF updateGhlStart_p003(e) = "throw"
        THEN Catch_p003 /\ UNCHANGED <<calls, crmValue>>
        ELSE Fetch("crm") /\ crmValue' = totalEstimate

\* the handler once the measurement returned m
Measured_p003(e, m, st) ==
  IF Falsy(m)
  THEN /\ Respond(200, "not_updated", "true", None, FALSE, FALSE)
       /\ Locals(m, 0, None, st, None, None)
       /\ UNCHANGED <<calls, crmValue>>
  ELSE Estimate_p003(e, m, 1, bufferSquares_p003(m), st)

Handler_p003(r, e) ==
  /\ Receive("p003", r, e)
  /\ IF r.method # "POST"
     THEN /\ Respond(200, "post_only", "false", None, FALSE, FALSE)
          /\ NoLocals /\ UNCHANGED <<calls, crmValue>>
     ELSE IF r.body = "badjson"
     THEN Catch_p003 /\ NoLocals /\ UNCHANGED <<calls, crmValue>>
     ELSE IF ~Truthy(r.contactId)
     THEN /\ Respond(200, "missing_contact", "false", None, FALSE, FALSE)
          /\ NoLocals /\ UNCHANGED <<calls, crmValue>>
     ELSE
       LET address == Or(r.address, Null)
           storiesRaw == Or(r.stories, Null)
           squaresRaw == Or(r.squares, Null)
           st == normalizeStories_p003(storiesRaw)
           providedSquares == normalizeSquares_p003(squaresRaw)
       IN IF ~Falsy(providedSquares)
          THEN Estimate_p003(e, None, 0, providedSquares, st)
          ELSE IF ~Truthy(address)
          THEN /\ Respond(200, "not_updated", "true", None, FALSE, FALSE)
               /\ Locals(None, 0, None, st, None, None)
               /\ UNCHANGED <<calls, crmValue>>
          ELSE IF measureStart_p003(e) = "null"
          THEN Measured_p003(e, None, st)
          ELSE /\ Fetch("geocode")
               /\ Locals(None, 0, None, st, None, None)
               /\ UNCHANGED crmValue

GeocodeReply_p003(o) ==
  CASE measureGeo_p003(o) = "null" -> Measured_p003(env, None, stories)
    [] measureGeo_p003(o) = "throw" ->
         Catch_p003 /\ NoLocals /\ UNCHANGED <<calls, crmValue>>
    [] OTHER -> Fetch("solar") /\ NoLocals /\ UNCHANGED crmValue

SolarReply_p003(o) ==
  IF measureSolar_p003(o) = Thrown
  THEN Catch_p003 /\ NoLocals /\ UNCHANGED <<calls, crmValue>>
  ELSE Measured_p003(env, measureSolar_p003(o), stories)

CrmReply_p003(o) ==
  /\ NoLocals /\ UNCHANGED <<calls, crmValue>>
  /\ IF updateGhlDone_p003(o) = "throw"
     THEN Catch_p003
     ELSE Respond(200, "updated", "true", total, FALSE, FALSE)

\* ------------------------------------------------------------------------
\* src/unnamed/part_005, second handler: write-back handler (PUT, flat payload)
\* ------------------------------------------------------------------------

normalizeStories_p005b(val) ==
  IF ~Truthy(val) THEN W(1)
  ELSE LET n == IF FirstDigits(val) # NaN THEN FirstDigits(val) ELSE ToNumber(val)
       IN IF n = NaN THEN W(1) ELSE Min(Max(n, W(1)), W(3))

normalizeSquares_p005b(val) ==
  LET n == ToNumber(val)
  IN IF n = NaN \/ n <= 0 THEN None ELSE Ceil(n)

bufferSquares_p005b(sq) ==
  IF sq <= W(15) THEN sq + W(3)
  ELSE IF sq <= W(25) THEN sq + W(4)
  ELSE sq + W(5)

\* Number(num.toFixed(2)): a number of halves has at most one decimal
roundCurrency_p005b(num) == IF num = NaN THEN NaN ELSE (num * 100) \div 100

PRICE_PER_SQUARE_p005b(key) ==
  CASE key = W(1) -> W(500)
    [] key = W(2) -> W(575)
    [] key = W(3) -> W(650)
    [] OTHER -> NaN

\* measureRoofSquaresFromSolar up to the geocode call: "null" or "fetch"
measureStart_p005b(e) == IF ~e.apiKey THEN "null" ELSE "fetch"

\* measureRoofSquaresFromSolar from the geocode answer to the building-insight
\* call: "null" (returns null), "throw" (the exception leaves the function)
\* or "fetch" (the building-insight call is made)
measureGeo_p005b(o) ==
  CASE o = "throw" -> "null"
    [] o = "notOK" -> "null"
    [] o = "okEmpty" -> "null"
    [] OTHER -> "fetch"

\* measureRoofSquaresFromSolar from the building-insight answer on: the
\* squares, None for null, or Thrown
measureSolar_p005b(o) ==
  CASE o.o = "throw" -> None
    [] o.o = "httpError" -> None
    [] o.o = "noSegments" -> None
    [] OTHER -> IF o.m2 = 0 \/ o.m2 <= 0 THEN None ELSE SquaresFromM2(o.m2)

\* updateGhlTotalEstimate up to the PUT
updateGhlStart_p005b(e) ==
  IF ~e.token THEN "throw" ELSE IF ~e.fieldKey THEN "throw" ELSE "fetch"

\* updateGhlTotalEstimate from the answer of the PUT on
updateGhlDone_p005b(o) ==
  CASE o = "throw" -> "throw"
    [] o = "non2xx" -> "throw"
    [] OTHER -> "data"

Catch_p005b == Respond(200, "error", "false", None, TRUE, TRUE)

\* pricing and the start of the write-back
Estimate_p005b(e, m, bc, fs, st) ==
  LET pricePerSquare == OrNum(PRICE_PER_SQUARE_p005b(st), PRICE_PER_SQUARE_p005b(W(1)))
      totalEstimate == roundCurrency_p005b(Mul(fs, pricePerSquare))
  IN /\ Locals(m, bc, fs, st, pricePerSquare, totalEstimate)
     /\ IF updateGhlStart_p005b(e) = "throw"
        THEN Catch_p005b /\ UNCHANGED <<calls, crmValue>>
        ELSE Fetch("crm") /\ crmValue' = totalEstimate

\* the handler once the measurement returned m
Measured_p005b(e, m, st) ==
  IF Falsy(m)
  THEN /\ Respond(200, "not_updated", "true", None, FALSE, FALSE)
       /\ Locals(m, 0, None, st, None, None)
       /\ UNCHANGED <<calls, crmValue>>
  ELSE Estimate_p005b(e, m, 1, bufferSquares_p005b(m), st)

Handler_p005b(r, e) ==
  /\ Receive("p005b", r, e)
  /\ IF r.method # "POST"
     THEN /\ Respond(200, "post_only", "false", None, FALSE, FALSE)
          /\ NoLocals /\ UNCHANGED <<calls, crmValue>>
     ELSE IF r.body = "badjson"
     THEN Catch_p005b /\ NoLocals /\ UNCHANGED <<calls, crmValue>>
     ELSE IF ~Truthy(r.contactId)
     THEN /\ Respond(200, "missing_contact", "false", None, FALSE, FALSE)
          /\ NoLocals /\ UNCHANGED <<calls, crmValue>>
     ELSE
       LET address == Or(r.address, Null)
           storiesRaw == Or(r.stories, Null)
           squaresRaw == Or(r.squares, Null)
           st == normalizeStories_p005b(storiesRaw)
           providedSquares == normalizeSquares_p005b(squaresRaw)
       IN IF ~Falsy(providedSquares)
          THEN Estimate_p005b(e, None, 0, providedSquares, st)
          ELSE IF ~Truthy(address)
          THEN /\ Respond(200, "not_updated", "true", None, FALSE, FALSE)
               /\ Locals(None, 0, None, st, None, None)
               /\ UNCHANGED <<calls, crmValue>>
          ELSE IF measureStart_p005b(e) = "null"
          THEN Measured_p005b(e, None, st)
          ELSE /\ Fetch("geocode")
               /\ Locals(None, 0, None, st, None, None)
               /\ UNCHANGED crmValue

GeocodeReply_p005b(o) ==
  CASE measureGeo_p005b(o) = "null" -> Measured_p005b(env, None, stories)
    [] measureGeo_p005b(o) = "throw" ->
         Catch_p005b /\ NoLocals /\ UNCHANGED <<calls, crmValue>>
    [] OTHER -> Fetch("solar") /\ NoLocals /\ UNCHANGED crmValue

SolarReply_p005b(o) ==
  IF measureSolar_p005b(o) = Thrown
  THEN Catch_p005b /\ NoLocals /\ UNCHANGED <<calls, crmValue>>
  ELSE Measured_p005b(env, measureSolar_p005b(o), stories)

CrmReply_p005b(o) ==
  /\ NoLocals /\ UNCHANGED <<calls, crmValue>>
  /\ IF updateGhlDone_p005b(o) = "throw"
     THEN Catch_p005b
     ELSE Respond(200, "updated", "true", total, FALSE, FALSE)

\* ------------------------------------------------------------------------
\* src/unnamed/part_000: write-back handler with roof-type pricing
\* ------------------------------------------------------------------------

normalizeStories_p000(val) ==
  IF ~Truthy(val) THEN W(1)
  ELSE LET n == IF FirstDigits(val) # NaN THEN FirstDigits(val) ELSE ToNumber(val)
       IN IF n = NaN THEN W(1) ELSE Min(Max(n, W(1)), W(3))

normalizeSquares_p000(val) ==
  LET n == ToNumber(val)
  IN IF n = NaN \/ n <= 0 THEN None ELSE Ceil(n)

bufferSquares_p000(sq) ==
  IF sq <= W(15) THEN sq + W(3)
  ELSE IF sq <= W(25) THEN sq + W(4)
  ELSE sq + W(5)

\* the same with clay tested before tile
normalizeRoofType_p000_clayFirst(val) ==
  IF val = RoofAbsent THEN "asphalt"
  ELSE LET normalized == Trim(ToLowerCase(val))
       IN CASE Includes(normalized, "metal") -> "metal"
            [] Includes(normalized, "clay") -> "clay"
            [] Includes(normalized, "tile") -> "tile"
            [] OTHER -> "asphalt"

\* String(val).toLowerCase().trim() and the containment tests
normalizeRoofType_p000(val) ==
  IF val = RoofAbsent THEN "asphalt"
  ELSE LET normalized == Trim(ToLowerCase(val))
       IN CASE Includes(normalized, "metal") -> "metal"
            [] Includes(normalized, "tile") -> "tile"
            [] Includes(normalized, "clay") -> "clay"
            [] Includes(normalized, "asphalt") \/ Includes(normalized, "composition") -> "asphalt"
            [] OTHER -> "asphalt"

BASE_PRICE_PER_SQUARE_p000(key) ==
  CASE key = "asphalt" -> W(600)
    [] key = "metal" -> W(1000)
    [] key = "tile" -> W(2000)
    [] key = "clay" -> W(2000)
    [] OTHER -> NaN

\* the multipliers 1.0, 1.15 and 1.30, in hundredths
STORY_MULTIPLIER_p000(key) ==
  CASE key = W(1) -> 100
    [] key = W(2) -> 115
    [] key = W(3) -> 130
    [] OTHER -> NaN

\* Math.round(finalSquares * basePricePerSquare * storyMultiplier), the
\* multiplier given in hundredths
RoundProduct_p000(fs, base, mult100) ==
  IF fs = NaN \/ base = NaN \/ mult100 = NaN THEN NaN
  ELSE W((((fs \div 2) * (base \div 2) * mult100) + 50) \div 100)

\* measureRoofSquaresFromSolar up to the geocode call: "null" or "fetch"
measureStart_p000(e) == IF ~e.apiKey THEN "null" ELSE "fetch"

\* measureRoofSquaresFromSolar from the geocode answer to the building-insight
\* call: "null" (returns null), "throw" (the exception leaves the function)
\* or "fetch" (the building-insight call is made)
measureGeo_p000(o) ==
  CASE o = "throw" -> "null"
    [] o = "notOK" -> "null"
    [] o = "okEmpty" -> "null"
    [] OTHER -> "fetch"

\* measureRoofSquaresFromSolar from the building-insight answer on: the
\* squares, None for null, or Thrown
measureSolar_p000(o) ==
  CASE o.o = "throw" -> None
    [] o.o = "httpError" -> None
    [] o.o = "noSegments" -> None
    [] OTHER -> IF o.m2 = 0 \/ o.m2 <= 0 THEN None ELSE SquaresFromM2(o.m2)

\* updateGhlTotalEstimate up to the PUT
updateGhlStart_p000(e) ==
  IF ~e.token THEN "throw" ELSE IF ~e.fieldKey THEN "throw" ELSE "fetch"

\* updateGhlTotalEstimate from the answer of the PUT on
updateGhlDone_p000(o) ==
  CASE o = "throw" -> "throw"
    [] o = "non2xx" -> "throw"
    [] OTHER -> "data"

Catch_p000 == Respond(200, "error", "false", None, TRUE, TRUE)

\* pricing and the start of the write-back
Estimate_p000(e, m, bc, fs, st) ==
  LET roofType == normalizeRoofType_p000(req'.roofType)
      basePricePerSquare == BASE_PRICE_PER_SQUARE_p000(roofType)
      storyMultiplier == STORY_MULTIPLIER_p000(st)
      totalEstimate == RoundProduct_p000(fs, basePricePerSquare, storyMultiplier)
  IN /\ Locals(m, bc, fs, st, basePricePerSquare, totalEstimate)
     /\ IF updateGhlStart_p000(e) = "throw"
        THEN Catch_p000 /\ UNCHANGED <<calls, crmValue>>
        ELSE Fetch("crm") /\ crmValue' = totalEstimate

\* the handler once the measurement returned m
Measured_p000(e, m, st) ==
  IF Falsy(m)
  THEN /\ Respond(200, "not_updated", "true", None, FALSE, FALSE)
       /\ Locals(m, 0, None, st, None, None)
       /\ UNCHANGED <<calls, crmValue>>
  ELSE Estimate_p000(e, m, 1, bufferSquares_p000(m), st)

Handler_p000(r, e) ==
  /\ Receive("p000", r, e)
  /\ IF r.method # "POST"
     THEN /\ Respond(200, "post_only", "false", None, FALSE, FALSE)
          /\ NoLocals /\ UNCHANGED <<calls, crmValue>>
     ELSE IF r.body = "badjson"
     THEN Catch_p000 /\ NoLocals /\ UNCHANGED <<calls, crmValue>>
     ELSE IF ~Truthy(r.contactId)
     THEN /\ Respond(200, "missing_contact", "false", None, FALSE, FALSE)
          /\ NoLocals /\ UNCHANGED <<calls, crmValue>>
     ELSE
       LET address == Or(r.address, Null)
           storiesRaw == Or(r.stories, Null)
           squaresRaw == Or(r.squares, Null)
           st == normalizeStories_p000(storiesRaw)
           providedSquares == normalizeSquares_p000(squaresRaw)
       IN IF ~Falsy(providedSquares)
          THEN Estimate_p000(e, None, 0, providedSquares, st)
          ELSE IF ~Truthy(address)
          THEN /\ Respond(200, "not_updated", "true", None, FALSE, FALSE)
               /\ Locals(None, 0, None, st, None, None)
               /\ UNCHANGED <<calls, crmValue>>
          ELSE IF measureStart_p000(e) = "null"
          THEN Measured_p000(e, None, st)
          ELSE /\ Fetch("geocode")
               /\ Locals(None, 0, None, st, None, None)
               /\ UNCHANGED crmValue

GeocodeReply_p000(o) ==
  CASE measureGeo_p000(o) = "null" -> Measured_p000(env, None, stories)
    [] measureGeo_p000(o) = "throw" ->
         Catch_p000 /\ NoLocals /\ UNCHANGED <<calls, crmValue>>
    [] OTHER -> Fetch("solar") /\ NoLocals /\ UNCHANGED crmValue

SolarReply_p000(o) ==
  IF measureSolar_p000(o) = Thrown
  THEN Catch_p000 /\ NoLocals /\ UNCHANGED <<calls, crmValue>>
  ELSE Measured_p000(env, measureSolar_p000(o), stories)

CrmReply_p000(o) ==
  /\ NoLocals /\ UNCHANGED <<calls, crmValue>>
  /\ IF updateGhlDone_p000(o) = "throw"
     THEN Catch_p000
     ELSE Respond(200, "updated", "true", total, FALSE, FALSE)

\* ------------------------------------------------------------------------
\* src/unnamed/part_004: write-back handler (PATCH, customFields), debug version
\* ------------------------------------------------------------------------

normalizeStories_p004(val) ==
  LET n == ToNumber(val)
  IN IF n = NaN THEN W(1) ELSE Min(Max(Floor(n), W(1)), W(3))

normalizeSquares_p004(val) ==
  LET n == ToNumber(val)
  IN IF n = NaN \/ n <= 0 THEN None ELSE Ceil(n)

bufferSquares_p004(sq) ==
  IF sq <= W(15) THEN sq + W(3)
  ELSE IF sq <= W(25) THEN sq + W(4)
  ELSE sq + W(5)

\* Number(num.toFixed(2)): a number of halves has at most one decimal
roundCurrency_p004(num) == IF num = NaN THEN NaN ELSE (num * 100) \div 100

PRICE_PER_SQUARE_p004(key) ==
  CASE key = W(1) -> W(500)
    [] key = W(2) -> W(575)
    [] key = W(3) -> W(650)
    [] OTHER -> NaN

\* measureRoofSquaresFromSolar up to the geocode call: "null" or "fetch"
measureStart_p004(e) == IF ~e.apiKey THEN "null" ELSE "fetch"

\* measureRoofSquaresFromSolar from the geocode answer to the building-insight
\* call: "null" (returns null), "throw" (the exception leaves the function)
\* or "fetch" (the building-insight call is made)
measureGeo_p004(o) ==
  CASE o = "throw" -> "throw"
    [] o = "notOK" -> "null"
    [] o = "okEmpty" -> "throw"
    [] OTHER -> "fetch"

\* measureRoofSquaresFromSolar from the building-insight answer on: the
\* squares, None for null, or Thrown
measureSolar_p004(o) ==
  CASE o.o = "throw" -> Thrown
    [] o.o = "httpError" -> None
    [] o.o = "noSegments" -> None
    [] OTHER ->
         LET totalM2 == IF o.shape = "direct" THEN o.m2 ELSE 0
         IN IF totalM2 = 0 THEN None ELSE SquaresFromM2(totalM2)

\* the same without the test of the field key
updateGhlStart_p004_noFieldKey(e) ==
  IF ~e.token THEN "throw" ELSE "fetch"

\* updateGhlTotalEstimate up to the PUT
updateGhlStart_p004(e) ==
  IF ~e.token THEN "throw" ELSE IF ~e.fieldKey THEN "throw" ELSE "fetch"

\* updateGhlTotalEstimate from the answer of the PUT on
updateGhlDone_p004(o) ==
  CASE o = "throw" -> "throw"
    [] o = "non2xx" -> "throw"
    [] OTHER -> "data"

Catch_p004 == Respond(200, "error", "false", None, TRUE, TRUE)

\* pricing and the start of the write-back
Estimate_p004(e, m, bc, fs, st) ==
  LET pricePerSquare == OrNum(PRICE_PER_SQUARE_p004(st), PRICE_PER_SQUARE_p004(W(1)))
      totalEstimate == roundCurrency_p004(Mul(fs, pricePerSquare))
  IN /\ Locals(m, bc, fs, st, pricePerSquare, totalEstimate)
     /\ IF totalEstimate = NaN
        THEN /\ Respond(200, "not_updated", "true", None, FALSE, FALSE)
             /\ UNCHANGED <<calls, crmValue>>
        ELSE IF updateGhlStart_p004(e) = "throw"
        THEN Catch_p004 /\ UNCHANGED <<calls, crmValue>>
        ELSE Fetch("crm") /\ crmValue' = totalEstimate

\* the handler once the measurement returned m
Measured_p004(e, m, st) ==
  IF Falsy(m)
  THEN /\ Respond(200, "not_updated", "true", None, FALSE, FALSE)
       /\ Locals(m, 0, None, st, None, None)
       /\ UNCHANGED <<calls, crmValue>>
  ELSE Estimate_p004(e, m, 1, bufferSquares_p004(m), st)

Handler_p004(r, e) ==
  /\ Receive("p004", r, e)
  /\ IF r.method # "POST"
     THEN /\ Respond(200, "post_only", "false", None, FALSE, FALSE)
          /\ NoLocals /\ UNCHANGED <<calls, crmValue>>
     ELSE IF r.body = "badjson"
     THEN Catch_p004 /\ NoLocals /\ UNCHANGED <<calls, crmValue>>
     ELSE IF ~Truthy(r.contactId)
     THEN /\ IF r.body = "null"
             THEN Catch_p004
             ELSE Respond(200, "missing_contact", "false", None, FALSE, FALSE)
          /\ NoLocals /\ UNCHANGED <<calls, crmValue>>
     ELSE
       LET address == Or(r.address, Undef)
           st == normalizeStories_p004(r.stories)
           providedSquares == normalizeSquares_p004(r.squares)
       IN IF ~Falsy(providedSquares)
          THEN Estimate_p004(e, None, 0, providedSquares, st)
          ELSE IF ~Truthy(address)
          THEN /\ Respond(200, "not_updated", "true", None, FALSE, FALSE)
               /\ Locals(None, 0, None, st, None, None)
               /\ UNCHANGED <<calls, crmValue>>
          ELSE IF measureStart_p004(e) = "null"
          THEN Measured_p004(e, None, st)
          ELSE /\ Fetch("geocode")
               /\ Locals(None, 0, None, st, None, None)
               /\ UNCHANGED crmValue

GeocodeReply_p004(o) ==
  CASE measureGeo_p004(o) = "null" -> Measured_p004(env, None, stories)
    [] measureGeo_p004(o) = "throw" ->
         Catch_p004 /\ NoLocals /\ UNCHANGED <<calls, crmValue>>
    [] OTHER -> Fetch("solar") /\ NoLocals /\ UNCHANGED crmValue

SolarReply_p004(o) ==
  IF measureSolar_p004(o) = Thrown
  THEN Catch_p004 /\ NoLocals /\ UNCHANGED <<calls, crmValue>>
  ELSE Measured_p004(env, measureSolar_p004(o), stories)

CrmReply_p004(o) ==
  /\ NoLocals /\ UNCHANGED <<calls, crmValue>>
  /\ IF updateGhlDone_p004(o) = "throw"
     THEN Catch_p004
     ELSE Respond(200, "updated", "true", total, FALSE, FALSE)

\* ------------------------------------------------------------------------
\* Continuations
\* ------------------------------------------------------------------------

\* the geocode call returns
GeocodeReply(o) ==
  /\ pc = "geocode"
  /\ geo' = o
  /\ UNCHANGED <<reqVars, solar, crm, bufVars, resVars, cbVars, addrVars>>
  /\ CASE variant = "p003" -> GeocodeReply_p003(o)
       [] variant = "p005b" -> GeocodeReply_p005b(o)
       [] variant = "p000" -> GeocodeReply_p000(o)
       [] variant = "p004" -> GeocodeReply_p004(o)
       [] variant = "roof2" -> GeocodeReply_roof2(o)
       [] variant = "roof3" -> GeocodeReply_roof3(o)
       [] variant = "p005a" -> GeocodeReply_p005a(o)

\* the building-insight call returns
SolarReply(o) ==
  /\ pc = "solar"
  /\ solar' = o
  /\ UNCHANGED <<reqVars, geo, crm, bufVars, resVars, cbVars, addrVars>>
  /\ CASE variant = "p003" -> SolarReply_p003(o)
       [] variant = "p005b" -> SolarReply_p005b(o)
       [] variant = "p000" -> SolarReply_p000(o)
       [] variant = "p004" -> SolarReply_p004(o)
       [] variant = "roof2" -> SolarReply_roof2(o)
       [] variant = "roof3" -> SolarReply_roof3(o)
       [] variant = "p005a" -> SolarReply_p005a(o)

\* the CRM update call returns
CrmReply(o) ==
  /\ pc = "crm"
  /\ crm' = o
  /\ UNCHANGED <<reqVars, geo, solar, bufVars, resVars, cbVars, addrVars>>
  /\ CASE variant = "p003" -> CrmReply_p003(o)
       [] variant = "p005b" -> CrmReply_p005b(o)
       [] variant = "p000" -> CrmReply_p000(o)
       [] variant = "p004" -> CrmReply_p004(o)

WriteBackJobs == {"retail", "insurance claim"}

WriteBackRequests ==
  Requests(WriteBackJobs, {RoofAbsent}, StoriesSamples, SquaresSamples,
           AddressSamples, ContactSamples)

RoofTypeRequests ==
  Requests(WriteBackJobs, RoofTypes_p000, StoriesSamples, SquaresSamples,
           AddressSamples, ContactSamples)

\* requests to the handlers that route on the job type
RoutedRequests ==
  Requests(JobTypes, {RoofAbsent}, StoriesSamples, SquaresSamples, AddressSamples, {Undef})

PricingRequests ==
  Requests(WriteBackJobs, {RoofAbsent}, StoriesSamples, SquaresSamples, AddressSamples,
           {Undef})

PriceTableRequests ==
  Requests(JobTypes, RoofTypes_p001, StoriesSamples, SquaresSamples, AddressSamples,
           {Undef})

\* the handlers without write-back read no CRM secret
EchoEnvs == {x \in Envs : x.token /\ x.fieldKey}

\* the handlers with a constant measurement read no secret at all
DemoEnvs == {x \in Envs : x.apiKey /\ x.token /\ x.fieldKey}

Next ==
  \/ pc = "idle" /\ \E r \in RoutedRequests, e \in EchoEnvs : Handler_roof2(r, e)
  \/ pc = "idle" /\ \E r \in RoutedRequests, e \in EchoEnvs : Handler_roof3(r, e)
  \/ pc = "idle" /\ \E r \in RoutedRequests, e \in DemoEnvs : Handler_roof1(r, e)
  \/ pc = "idle" /\ \E r \in PriceTableRequests, e \in DemoEnvs : Handler_p001(r, e)
  \/ pc = "idle" /\ \E r \in RoutedRequests, e \in DemoEnvs : Handler_p002(r, e)
  \/ pc = "idle" /\ \E r \in PricingRequests, e \in EchoEnvs : Handler_p005a(r, e)
  \/ pc = "idle" /\ \E r \in WriteBackRequests, e \in Envs : Handler_p003(r, e)
  \/ pc = "idle" /\ \E r \in WriteBackRequests, e \in Envs : Handler_p005b(r, e)
  \/ pc = "idle" /\ \E r \in RoofTypeRequests, e \in Envs : Handler_p000(r, e)
  \/ pc = "idle" /\ \E r \in WriteBackRequests, e \in Envs : Handler_p004(r, e)
  \/ \E o \in GeoOutcomes : GeocodeReply(o)
  \/ \E o \in SolarOutcomes : SolarReply(o)
  \/ \E o \in CrmOutcomes : CrmReply(o)

Spec == Init /\ [][Next]_vars

\* ------------------------------------------------------------------------
\* The buffer function on its own: every copy applied to two raw counts
\* ------------------------------------------------------------------------

\* largest raw square count the buffer copies are applied to
MaxRaw == 30

bufferCopy(c, sq) ==
  CASE c = "roof2" -> applySquareBuffer_roof2(sq)
    [] c = "roof3" -> applySquareBuffer_roof3(sq)
    [] c = "p000" -> bufferSquares_p000(sq)
    [] c = "p003" -> bufferSquares_p003(sq)
    [] c = "p004" -> bufferSquares_p004(sq)
    [] c = "p005a" -> bufferSquares_p005a(sq)
    [] c = "p005b" -> bufferSquares_p005b(sq)

InitBuffer ==
  /\ variant = "none"
  /\ req = NoReq
  /\ env = NoEnv
  /\ pc = "idle"
  /\ calls = <<>>
  /\ geo = "none"
  /\ solar = NoSolar
  /\ crm = "none"
  /\ measured = None
  /\ bufCount = 0
  /\ finalSquares = None
  /\ stories = None
  /\ price = None
  /\ total = None
  /\ crmValue = None
  /\ resp = NoResp
  /\ respCount = 0
  /\ bufIn \in {<<W(a), W(b)>> : a, b \in 1..MaxRaw}
  /\ bufOut = NoBufOut
  /\ resIn = <<>>
  /\ resOut = NoResOut
  /\ latestResults = EmptyObject
  /\ cbNow = 1
  /\ cbReq = NoCallback
  /\ cbRes = NoCallbackRes
  /\ cbAccepted = NoneAccepted
  /\ cbGot = NotAsked
  /\ addrIn = {}
  /\ addrOut = NoAddrOut

ApplyBuffer ==
  /\ bufOut = NoBufOut
  /\ bufOut' = [c \in BufferCopies |-> <<bufferCopy(c, bufIn[1]), bufferCopy(c, bufIn[2])>>]
  /\ UNCHANGED <<variant, req, env, pc, calls, geo, solar, crm, measured, bufCount,
                 finalSquares, stories, price, total, crmValue, resp, respCount, bufIn, resVars, cbVars, addrVars>>

NextBuffer == ApplyBuffer

SpecBuffer == InitBuffer /\ [][NextBuffer]_vars

\* ------------------------------------------------------------------------
\* src/api/roof.js: flattenKeys, getNestedValue and resolveField on their own
\* ------------------------------------------------------------------------

\* A payload is the sequence of its root entries in insertion order.  An
\* entry has a key, a value and, when the value is an object, the entries of
\* that object (whose values are no objects).

\* most root keys of a payload
MaxRootKeys == 2

\* most keys of a nested object
MaxNestedKeys == 1

Object == [k |-> "object", n |-> 0]

RootKeys == {"squares", "Squares", "square", "customData", "customData.squares"}

NestedKeys == {"squares", "square"}

RootLeaves == {Null, EmptyStr, Num(W(99)), Num(W(7))}

NestedLeaves == {EmptyStr, Num(W(12))}

\* the sequences of at most n entries of S with distinct keys
DistinctKeySeqs(S, n) ==
  {q \in UNION {[1..m -> S] : m \in 0..n} :
     \A i, j \in DOMAIN q : i # j => q[i].key # q[j].key}

NestedObjects == DistinctKeySeqs([key : NestedKeys, val : NestedLeaves], MaxNestedKeys)

Payloads ==
  DistinctKeySeqs(
    {[key |-> key, val |-> v, sub |-> <<>>] : key \in RootKeys, v \in RootLeaves}
      \cup {[key |-> key, val |-> Object, sub |-> o] : key \in RootKeys, o \in NestedObjects},
    MaxRootKeys)

\* key.split(".")
Segments(key) ==
  CASE key = "customData.squares" -> <<"customData", "squares">>
    [] OTHER -> <<key>>

\* k.replace(/[\s_-]/g, "").toLowerCase(), segment by segment (the dots stay)
normalize(path) ==
  [i \in DOMAIN path |->
     CASE path[i] = "Squares" -> "squares"
       [] path[i] = "customData" -> "customdata"
       [] OTHER -> path[i]]

\* obj[key] for an own key of a sequence of entries
Property(entries, key) ==
  IF \E i \in DOMAIN entries : entries[i].key = key
  THEN entries[CHOOSE i \in DOMAIN entries : entries[i].key = key].val
  ELSE Undef

\* the keys of one root entry: its own, then those of its object
RootEntryKeys(e) ==
  <<Segments(e.key)>> \o [j \in DOMAIN e.sub |-> Segments(e.key) \o Segments(e.sub[j].key)]

RECURSIVE flattenKeys_roof2(_)
flattenKeys_roof2(obj) ==
  IF obj = <<>> THEN <<>>
  ELSE RootEntryKeys(Head(obj)) \o flattenKeys_roof2(Tail(obj))

\* the walk along the parts of the path, undefined as soon as a part is
getNestedValue_roof2(obj, path) ==
  LET first == Property(obj, path[1])
  IN IF Len(path) = 1 THEN first
     ELSE IF Len(path) = 2 /\ first = Object
     THEN Property((CHOOSE e \in {obj[i] : i \in DOMAIN obj} : e.key = path[1]).sub, path[2])
     ELSE Undef

\* the match without the test of the ending
fuzzyMatch_exactOnly(normalized, target) == normalized = target

\* normalized === target || normalized.endsWith("." + target)
fuzzyMatch(normalized, target) ==
  \/ normalized = target
  \/ /\ Len(normalized) > Len(target)
     /\ SubSeq(normalized, Len(normalized) - Len(target) + 1, Len(normalized)) = target

\* resolveField trying the flattened paths before the exact root key
resolveField_roof2_nestedFirst(body, allKeys, possibleKeys) ==
  LET found(key) ==
        LET target == normalize(Segments(key))
            directValue == Property(body, key)
            hits == {j \in DOMAIN allKeys :
                       /\ fuzzyMatch(normalize(allKeys[j]), target)
                       /\ getNestedValue_roof2(body, allKeys[j]).k \notin {"undef", "null", "empty"}}
        IN IF hits # {}
           THEN getNestedValue_roof2(body, allKeys[CHOOSE j \in hits : \A h \in hits : j <= h])
           ELSE IF directValue.k \notin {"undef", "null", "empty"} THEN directValue
           ELSE Undef
      aliases == {i \in DOMAIN possibleKeys : found(possibleKeys[i]) # Undef}
  IN IF aliases = {} THEN Undef
     ELSE found(possibleKeys[CHOOSE i \in aliases : \A h \in aliases : i <= h])

resolveField_roof2(body, allKeys, possibleKeys) ==
  LET found(key) ==
        LET target == normalize(Segments(key))
            directValue == Property(body, key)
            hits == {j \in DOMAIN allKeys :
                       /\ fuzzyMatch(normalize(allKeys[j]), target)
                       /\ getNestedValue_roof2(body, allKeys[j]).k \notin {"undef", "null", "empty"}}
        IN IF directValue.k \notin {"undef", "null", "empty"} THEN directValue
           ELSE IF hits = {} THEN Undef
           ELSE getNestedValue_roof2(body, allKeys[CHOOSE j \in hits : \A h \in hits : j <= h])
      aliases == {i \in DOMAIN possibleKeys : found(possibleKeys[i]) # Undef}
  IN IF aliases = {} THEN Undef
     ELSE found(possibleKeys[CHOOSE i \in aliases : \A h \in aliases : i <= h])

RECURSIVE flattenKeys_roof3(_)
flattenKeys_roof3(obj) ==
  IF obj = <<>> THEN <<>>
  ELSE RootEntryKeys(Head(obj)) \o flattenKeys_roof3(Tail(obj))

\* path.split(".").reduce((o, p) => o?.[p], obj)
getNestedValue_roof3(obj, path) ==
  LET first == Property(obj, path[1])
  IN IF Len(path) = 1 THEN first
     ELSE IF Len(path) = 2 /\ first = Object
     THEN Property((CHOOSE e \in {obj[i] : i \in DOMAIN obj} : e.key = path[1]).sub, path[2])
     ELSE Undef

resolveField_roof3(body, allKeys, possibleKeys) ==
  LET found(pk) ==
        LET target == normalize(Segments(pk))
            hits == {j \in DOMAIN allKeys :
                       /\ fuzzyMatch(normalize(allKeys[j]), target)
                       /\ getNestedValue_roof3(body, allKeys[j]).k \notin {"undef", "null", "empty"}}
        IN IF Property(body, pk).k \notin {"undef", "null", "empty"} THEN Property(body, pk)
           ELSE IF hits = {} THEN Undef
           ELSE getNestedValue_roof3(body, allKeys[CHOOSE j \in hits : \A h \in hits : j <= h])
      aliases == {i \in DOMAIN possibleKeys : found(possibleKeys[i]) # Undef}
  IN IF aliases = {} THEN Undef
     ELSE found(possibleKeys[CHOOSE i \in aliases : \A h \in aliases : i <= h])

\* the aliases of the squares field in extractFields
squaresAliases == <<"squares", "square", "customData.squares">>

InitResolve ==
  /\ variant = "none"
  /\ req = NoReq
  /\ env = NoEnv
  /\ pc = "idle"
  /\ calls = <<>>
  /\ geo = "none"
  /\ solar = NoSolar
  /\ crm = "none"
  /\ measured = None
  /\ bufCount = 0
  /\ finalSquares = None
  /\ stories = None
  /\ price = None
  /\ total = None
  /\ crmValue = None
  /\ resp = NoResp
  /\ respCount = 0
  /\ bufIn = <<0, 0>>
  /\ bufOut = NoBufOut
  /\ resIn \in Payloads
  /\ resOut = NoResOut
  /\ latestResults = EmptyObject
  /\ cbNow = 1
  /\ cbReq = NoCallback
  /\ cbRes = NoCallbackRes
  /\ cbAccepted = NoneAccepted
  /\ cbGot = NotAsked
  /\ addrIn = {}
  /\ addrOut = NoAddrOut

\* extractFields resolves the squares of the payload, in both handlers
ApplyResolve ==
  /\ resOut = NoResOut
  /\ resOut' = [c \in {"roof2", "roof3"} |->
                  IF c = "roof2"
                  THEN resolveField_roof2(resIn, flattenKeys_roof2(resIn), squaresAliases)
                  ELSE resolveField_roof3(resIn, flattenKeys_roof3(resIn), squaresAliases)]
  /\ UNCHANGED <<variant, req, env, pc, calls, geo, solar, crm, measured, bufCount,
                 finalSquares, stories, price, total, crmValue, resp, respCount, bufVars,
                 resIn, cbVars, addrVars>>

NextResolve == ApplyResolve

SpecResolve == InitResolve /\ [][NextResolve]_vars

\* ------------------------------------------------------------------------
\* Properties
\* ------------------------------------------------------------------------

\* ------------------------------------------------------------------------
\* src/unnamed/part_006: the callback bridge
\* ------------------------------------------------------------------------

CallbackRequests ==
  [method : Methods, body : {"object", "null"}, callbackId : CallbackIds,
   payload : CallbackPayloads]

\* export default async function handler(req, res): it has no await, so it
\* runs to its end before any other request or lookup is served
handler_p006(r) ==
  /\ cbReq' = r
  /\ IF r.method # "POST"
     THEN /\ cbRes' = [status |-> 405, sent |-> 1]
          /\ UNCHANGED <<latestResults, cbNow, cbAccepted>>
     ELSE IF r.body = "null"
     THEN \* destructuring null or undefined throws before any response
          /\ cbRes' = [status |-> Thrown, sent |-> 0]
          /\ UNCHANGED <<latestResults, cbNow, cbAccepted>>
     ELSE IF FalsyId(r.callbackId)
     THEN /\ cbRes' = [status |-> 400, sent |-> 1]
          /\ UNCHANGED <<latestResults, cbNow, cbAccepted>>
     ELSE \E t \in cbNow..MaxNow :
            LET stored == Result(r.payload.status, r.payload.totalEstimate,
                                 r.payload.message, Num(W(t)))
            IN /\ cbNow' = t
               /\ latestResults' = Put(latestResults, r.callbackId, stored)
               /\ cbAccepted' = [cbAccepted EXCEPT ![r.callbackId] = stored]
               /\ cbRes' = [status |-> 200, sent |-> 1]
  /\ UNCHANGED <<cbGot>>

\* export async function getResult(callbackId)
getResult(id) == Or(Get(latestResults, id), Null)

Lookup(id) ==
  /\ cbGot' = [id |-> id, val |-> getResult(id)]
  /\ UNCHANGED <<latestResults, cbNow, cbReq, cbRes, cbAccepted>>

\* the variables of the request handlers, which the callback bridge leaves alone
handlerVars ==
  <<variant, req, env, pc, calls, geo, solar, crm, measured, bufCount,
    finalSquares, stories, price, total, crmValue, resp, respCount,
    bufVars, resVars, addrVars>>

\* a callback request arrives
Callback ==
  /\ \E r \in CallbackRequests : handler_p006(r)
  /\ UNCHANGED handlerVars

\* the frontend asks for a result
GetResult ==
  /\ \E id \in LookupIds : Lookup(id)
  /\ UNCHANGED handlerVars

NextCallback ==
  \/ Callback
  \/ GetResult

SpecCallback == Init /\ [][NextCallback]_vars

\* ------------------------------------------------------------------------
\* Address resolution: buildFullAddress and the address of each handler
\* ------------------------------------------------------------------------

\* parts.join(", ") keeps the parts in order; <<>> is null
buildFullAddress_p003(body) ==
  LET street == OrText(Field(body, "address1"),
                  OrText(Field(body, "customData.address"), Field(body, "address")))
      city == Field(body, "city")
      state == Field(body, "state")
      zip == OrText(Field(body, "postal_code"), Field(body, "postalCode"))
      parts == street \o city \o state \o zip
  IN IF street = <<>> THEN <<>>
     ELSE IF Len(parts) >= 3 THEN parts
     ELSE <<>>

address_p003(body) ==
  OrText(Field(body, "full_address"),
    OrText(Field(body, "customData.full_address"),
      OrText(Field(body, "contact.full_address"),
        OrText(buildFullAddress_p003(body),
          OrText(Field(body, "customData.address"),
            OrText(Field(body, "address"),
              OrText(Field(body, "address1"),
                OrText(Field(body, "contact.address"),
                  Field(body, "contact.address1")))))))))

buildFullAddress_p000(body) ==
  LET street == OrText(Field(body, "address1"),
                  OrText(Field(body, "customData.address"), Field(body, "address")))
      city == Field(body, "city")
      state == Field(body, "state")
      zip == OrText(Field(body, "postal_code"), Field(body, "postalCode"))
      parts == street \o city \o state \o zip
  IN IF street = <<>> THEN <<>>
     ELSE IF Len(parts) >= 3 THEN parts
     ELSE <<>>

address_p000(body) ==
  OrText(Field(body, "full_address"),
    OrText(Field(body, "customData.full_address"),
      OrText(Field(body, "contact.full_address"),
        OrText(buildFullAddress_p000(body),
          OrText(Field(body, "customData.address"),
            OrText(Field(body, "address"),
              OrText(Field(body, "address1"),
                OrText(Field(body, "contact.address"),
                  Field(body, "contact.address1")))))))))

buildFullAddress_p005b(body) ==
  LET street == OrText(Field(body, "address1"),
                  OrText(Field(body, "customData.address"), Field(body, "address")))
      city == Field(body, "city")
      state == Field(body, "state")
      zip == OrText(Field(body, "postal_code"), Field(body, "postalCode"))
      parts == street \o city \o state \o zip
  IN IF street = <<>> THEN <<>>
     ELSE IF Len(parts) >= 3 THEN parts
     ELSE <<>>

address_p005b(body) ==
  OrText(Field(body, "full_address"),
    OrText(Field(body, "customData.full_address"),
      OrText(Field(body, "contact.full_address"),
        OrText(buildFullAddress_p005b(body),
          OrText(Field(body, "customData.address"),
            OrText(Field(body, "address"),
              OrText(Field(body, "address1"),
                OrText(Field(body, "contact.address"),
                  Field(body, "contact.address1")))))))))

\* this handler has no buildFullAddress and reads three fields only
address_p004(body) ==
  OrText(Field(body, "address"),
    OrText(Field(body, "contact.address1"), Field(body, "contact.full_address")))

addressCopy(c, body) ==
  CASE c = "p000" -> address_p000(body)
    [] c = "p003" -> address_p003(body)
    [] c = "p004" -> address_p004(body)
    [] c = "p005b" -> address_p005b(body)

buildCopy(c, body) ==
  CASE c = "p000" -> buildFullAddress_p000(body)
    [] c = "p003" -> buildFullAddress_p003(body)
    [] c = "p005b" -> buildFullAddress_p005b(body)

InitAddress ==
  /\ variant = "none"
  /\ req = NoReq
  /\ env = NoEnv
  /\ pc = "idle"
  /\ calls = <<>>
  /\ geo = "none"
  /\ solar = NoSolar
  /\ crm = "none"
  /\ measured = None
  /\ bufCount = 0
  /\ finalSquares = None
  /\ stories = None
  /\ price = None
  /\ total = None
  /\ crmValue = None
  /\ resp = NoResp
  /\ respCount = 0
  /\ bufIn = <<0, 0>>
  /\ bufOut = NoBufOut
  /\ resIn = <<>>
  /\ resOut = NoResOut
  /\ latestResults = EmptyObject
  /\ cbNow = 1
  /\ cbReq = NoCallback
  /\ cbRes = NoCallbackRes
  /\ cbAccepted = NoneAccepted
  /\ cbGot = NotAsked
  /\ addrIn \in SUBSET AddressFields
  /\ addrOut = NoAddrOut

\* every handler resolves the address of the body
ApplyAddress ==
  /\ addrOut = NoAddrOut
  /\ addrOut' = [address |-> [c \in AddressCopies |-> addressCopy(c, addrIn)],
                 built |-> [c \in BuildCopies |-> buildCopy(c, addrIn)]]
  /\ UNCHANGED <<variant, req, env, pc, calls, geo, solar, crm, measured, bufCount,
                 finalSquares, stories, price, total, crmValue, resp, respCount,
                 bufVars, resVars, cbVars, addrIn>>

NextAddress == ApplyAddress

SpecAddress == InitAddress /\ [][NextAddress]_vars

WriteBackVariants == {"p000", "p003", "p004", "p005b"}

\* the handlers that measure through the geocode and building-insight services
MeasuringVariants == {"roof2", "roof3", "p000", "p003", "p004", "p005a", "p005b"}

\* the request is a POST of an object whose job type contains "insurance"
InsuranceRequest ==
  /\ req.method = "POST"
  /\ req.body = "object"
  /\ Includes(ToLowerCase(Trim(req.jobType)), "insurance")

\* the request carries a positive, numeric square count
ValidManualSquares == ToNumber(req.squares) # NaN /\ ToNumber(req.squares) > 0

\* a measurement for the address of the request returned a square count
MeasurementSucceeded == Truthy(req.address) /\ ~Falsy(measured)

\* the response carries an estimate
CarriesEstimate == pc = "done" /\ respCount > 0 /\ resp.total # None

\* the geocode or the building-insight call failed
GeocodeFailed == geo \in {"throw", "notOK", "okEmpty"}

SolarFailed == solar.o \in {"throw", "httpError", "noSegments"}

\* C1: in the write-back handlers, when the CRM update answers with a non-2xx
\* status, the response says ok:false and carries an error, never ok:true or
\* updated:true, although the estimate was computed.
C1_WritebackFailureSurfaced ==
  (variant \in WriteBackVariants /\ crm = "non2xx") =>
    /\ pc = "done"
    /\ respCount = 1
    /\ resp.ok = "false"
    /\ resp.err
    /\ resp.mode # "updated"
    /\ total \notin {None, NaN}
    /\ crmValue = total

C1_Witness ==
  /\ variant \in WriteBackVariants
  /\ crm = "non2xx"
  /\ resp.ok = "false"
  /\ resp.err
  /\ total = W(9000)

\* C2: in every handler, a request whose job type contains "insurance" is
\* answered in insurance mode, with no estimate computed and no outbound call.
C2_InsuranceShortCircuit ==
  (InsuranceRequest /\ pc = "done") =>
    /\ respCount = 1
    /\ resp.mode = "insurance"
    /\ total = None
    /\ resp.total = None
    /\ calls = <<>>

\* C3: in every handler, an estimate is produced only from a valid manual
\* square count or a successful measurement of the request's address;
\* otherwise the request ends without an estimate and without a write-back.
C3_EstimateOnlyFromSquares ==
  /\ total # None => (ValidManualSquares \/ MeasurementSucceeded)
  /\ (pc = "done" /\ ~ValidManualSquares /\ ~MeasurementSucceeded) =>
       (resp.total = None /\ crmValue = None /\ calls \in {<<>>, <<"geocode">>, <<"geocode", "solar">>})

\* C4: in every handler, a response that carries an estimate was computed from
\* a final square count that is a positive integer.
C4_FinalSquaresPositiveInteger ==
  CarriesEstimate =>
    /\ finalSquares \notin {None, NaN}
    /\ finalSquares > 0
    /\ finalSquares % 2 = 0

\* C5: in every handler that prices an estimate, the story count that selects
\* the price is 1, 2 or 3, inputs above 3 are priced as 3 stories and inputs
\* below 1 as 1 story, and the price is defined.
C5_StoriesClamped ==
  CarriesEstimate =>
    /\ stories \in {W(1), W(2), W(3)}
    /\ price \notin {None, NaN}
    /\ (ToNumber(req.stories) # NaN /\ ToNumber(req.stories) > W(3)) => stories = W(3)
    /\ (ToNumber(req.stories) # NaN /\ ToNumber(req.stories) < W(1)) => stories = W(1)

\* C6: when the measurement was tried and the geocode failed or the
\* building-insight service returned no roof segments, the answer has status
\* 200 and a manual-input-required / not-updated outcome, and no CRM call is
\* made.
C6_MeasurementFailureIsSoft ==
  (GeocodeFailed \/ solar.o = "noSegments") =>
    /\ pc = "done"
    /\ respCount = 1
    /\ resp.status = 200
    /\ resp.mode \in {"manual_required", "not_updated", "dotted_null"}
    /\ resp.total = None
    /\ calls \in {<<"geocode">>, <<"geocode", "solar">>}

\* C7: in every handler, a failure of the geocode or building-insight call is
\* turned into an absent measurement inside the measurement function and never
\* shows as an error response.
C7_MeasurementFailureCaught ==
  (GeocodeFailed \/ SolarFailed) =>
    /\ pc = "done"
    /\ measured = None
    /\ resp.mode # "error"
    /\ ~resp.err

\* C8: the outbound calls of a request are a linear sequence: at most one
\* geocode call, then at most one building-insight call and only after the
\* geocode succeeded, then at most one CRM call and only after the estimate
\* was computed.
C8_CallsLinear ==
  /\ calls \in {<<>>, <<"geocode">>, <<"geocode", "solar">>,
                <<"geocode", "solar", "crm">>, <<"crm">>}
  /\ (Len(calls) >= 2 /\ calls[2] = "solar") => geo = "ok"
  /\ (calls # <<>> /\ calls[Len(calls)] = "crm") =>
       /\ total \notin {None, NaN}
       /\ crmValue = total
       /\ (Len(calls) = 3 => (solar.o = "segments" /\ ~Falsy(measured)))
  /\ pc \in {"geocode", "solar", "crm"} => (calls # <<>> /\ calls[Len(calls)] = pc)

C8_Witness ==
  /\ calls = <<"geocode", "solar", "crm">>
  /\ pc = "done"
  /\ resp.mode = "updated"

\* C9: with a valid manual square count the measurement is not invoked and
\* the buffer is not applied: the final squares are the ceiling of the manual
\* value.  The buffer is applied once, and only to a measured result.
C9_ManualSquaresBypassMeasurement ==
  /\ ValidManualSquares =>
       /\ measured = None
       /\ bufCount = 0
       /\ \A i \in 1..Len(calls) : calls[i] \notin {"geocode", "solar"}
       /\ finalSquares # None => finalSquares = 2 * ((ToNumber(req.squares) + 1) \div 2)
  /\ bufCount \in {0, 1}
  /\ bufCount = 1 =>
       /\ solar.o = "segments"
       /\ ~Falsy(measured)
       /\ finalSquares = measured + (IF measured <= W(15) THEN W(3)
                                     ELSE IF measured <= W(25) THEN W(4) ELSE W(5))
  /\ (variant \in MeasuringVariants /\ pc = "done" /\ ~Falsy(measured)) => bufCount = 1

C9_Witness ==
  /\ variant = "p003"
  /\ req.squares = Num(5)
  /\ finalSquares = W(3)
  /\ calls = <<"crm">>
  /\ resp.mode = "updated"

\* C10: every copy of the buffer function returns raw+3 up to 15, raw+4 from
\* 16 to 25 and raw+5 above 25 (10 -> 13, 15 -> 18, 16 -> 20, 25 -> 29,
\* 26 -> 31) and is monotonic non-decreasing on the positive integers.
C10_BufferTable ==
  bufOut # NoBufOut =>
    \A c \in BufferCopies :
      /\ \A i \in {1, 2} :
           LET raw == bufIn[i] \div 2
               out == bufOut[c][i]
           IN /\ raw <= 15 => out = W(raw + 3)
              /\ (16 <= raw /\ raw <= 25) => out = W(raw + 4)
              /\ raw > 25 => out = W(raw + 5)
              /\ raw = 10 => out = W(13)
              /\ raw = 15 => out = W(18)
              /\ raw = 16 => out = W(20)
              /\ raw = 25 => out = W(29)
              /\ raw = 26 => out = W(31)
      /\ bufIn[1] <= bufIn[2] => bufOut[c][1] <= bufOut[c][2]

C10_Witness ==
  /\ bufIn = <<W(16), W(26)>>
  /\ \A c \in BufferCopies : bufOut[c] = <<W(20), W(31)>>

\* the handlers that measure and price with the 500 / 575 / 650 table
TieredMeasuringVariants == {"roof2", "roof3", "p003", "p004", "p005a", "p005b"}

\* the total area the measurement of the serving handler reads from the
\* segments of the answer (part_004 reads only areaMeters2 on the segment)
AreaRead == IF variant = "p004" /\ solar.shape = "stats" THEN 0 ELSE solar.m2

\* a retail request with 2 stories and no manual squares was measured from
\* segments read as 130 m2
AutoMeasured130 ==
  /\ variant \in TieredMeasuringVariants
  /\ req.jobType = "retail"
  /\ req.stories = Num(W(2))
  /\ req.squares \in {Undef, Null}
  /\ geo = "ok"
  /\ solar.o = "segments"
  /\ AreaRead = 130

\* C11 (as stated): the retail request with 2 stories measured from 130 m2
\* has a raw measurement of 15 squares, 18 buffered squares and a total
\* estimate of 18 x 575 = 10350.
C11_AutoMeasurementAsStated ==
  AutoMeasured130 =>
    /\ measured = W(15)
    /\ finalSquares = W(18)
    /\ total = W(10350)

\* C11 (amended): the retail request with 2 stories measured from 130 m2 has
\* a raw measurement of ceiling(139.9307 / 10) = 14 squares, 17 buffered
\* squares and a total estimate of 17 x 575 = 9775.
C11_AutoMeasurement ==
  AutoMeasured130 =>
    /\ measured = W(14)
    /\ bufCount = 1
    /\ finalSquares = W(17)
    /\ stories = W(2)
    /\ price = W(575)
    /\ total = W(9775)
    /\ CarriesEstimate => resp.total = W(9775)

C11_Witness ==
  /\ AutoMeasured130
  /\ variant = "roof2"
  /\ pc = "done"
  /\ resp.mode = "retail-estimate"
  /\ resp.total = W(9775)

\* ceiling(T x 10.7639 / 100) for T whole square meters
CeilingSquares(T) ==
  CHOOSE n \in 0..(T + 1) : n * 1000000 >= T * 107639 /\ (n - 1) * 1000000 < T * 107639

\* C12: for segments whose areas (in stats.areaMeters2 or in areaMeters2 of
\* the segment) sum to T > 0 the measurement returns ceiling(T x 10.7639 / 100)
\* squares (22 for T = 200); for an empty segment list or a total of zero it
\* returns absent.
C12_AreaConversion ==
  (variant \in MeasuringVariants /\ geo = "ok" /\ solar.o \in {"segments", "noSegments"}) =>
    IF solar.o = "segments" /\ solar.m2 > 0
    THEN /\ measured = W(CeilingSquares(solar.m2))
         /\ solar.m2 = 200 => measured = W(22)
    ELSE Falsy(measured)

\* a well-formed retail request with a positive manual square count and a
\* story count of 1, 2 or 3 was accepted by a handler with the tiered table
ManualTieredRequest ==
  /\ variant \in TieredMeasuringVariants
  /\ req.method = "POST"
  /\ req.body = "object"
  /\ req.jobType = "retail"
  /\ variant \in WriteBackVariants => Truthy(req.contactId)
  /\ ValidManualSquares
  /\ req.stories \in {Num(W(1)), Num(W(2)), Num(W(3))}

\* C13: with the 500 / 575 / 650 table, a manual square count q > 0 and a
\* story count n in {1, 2, 3} give finalSquares = ceiling(q), a price per
\* square of 500, 575, 650 for n = 1, 2, 3 and a total of finalSquares x
\* price; stories 1 and squares 18 give 18, 500 and 9000.
C13_ManualPricing ==
  ManualTieredRequest =>
    LET q == ToNumber(req.squares)
        n == ToNumber(req.stories)
    IN /\ finalSquares = 2 * ((q + 1) \div 2)
       /\ stories = n
       /\ price = (CASE n = W(1) -> W(500) [] n = W(2) -> W(575) [] n = W(3) -> W(650))
       /\ total = (finalSquares * price) \div 2
       /\ (q = W(18) /\ n = W(1)) =>
            (finalSquares = W(18) /\ price = W(500) /\ total = W(9000))
       /\ (pc = "done" /\ variant \notin WriteBackVariants) => resp.total = total

C13_Witness ==
  /\ ManualTieredRequest
  /\ variant = "roof2"
  /\ req.squares = Num(W(18))
  /\ req.stories = Num(W(1))
  /\ pc = "done"
  /\ resp.total = W(9000)

\* the request carries a squares value
SquaresPresent == req.squares \notin {Undef, Null, EmptyStr}

\* a well-formed retail request reached the normalization of its fields
NormalizationReached ==
  /\ variant # "none"
  /\ req.method = "POST"
  /\ req.body = "object"
  /\ req.jobType = "retail"
  /\ variant \in WriteBackVariants => Truthy(req.contactId)

\* C14: a squares input that is present and is <= 0 or non-numeric is
\* rejected as invalid input: it is not treated as absent (no measurement is
\* started for it) and it is never priced; a positive input is normalized to
\* its ceiling.
C14_InvalidSquaresRejected ==
  NormalizationReached =>
    /\ (SquaresPresent /\ ~ValidManualSquares) =>
         /\ pc = "done"
         /\ resp.mode = "invalid"
         /\ resp.err
         /\ calls = <<>>
         /\ total = None
    /\ (ValidManualSquares /\ finalSquares # None) =>
         finalSquares = 2 * ((ToNumber(req.squares) + 1) \div 2)

\* the handlers with a story normalization that clamps
StoryNormalizingVariants == {"roof2", "roof3", "p000", "p003", "p004", "p005b"}

\* the story normalization of the serving handler
normalizeStoriesOf(v, val) ==
  CASE v = "roof2" -> validateStories_roof2(val)
    [] v = "roof3" -> stories_roof3(val)
    [] v = "p000" -> normalizeStories_p000(val)
    [] v = "p003" -> normalizeStories_p003(val)
    [] v = "p004" -> normalizeStories_p004(val)
    [] v = "p005b" -> normalizeStories_p005b(val)

\* a well-formed retail request with valid manual squares (and, for part_000,
\* a roof type) went through the story normalization
StoriesNormalized ==
  /\ variant \in StoryNormalizingVariants
  /\ NormalizationReached
  /\ ValidManualSquares
  /\ variant = "p000" => req.roofType # RoofAbsent

\* C15: story normalization maps 1, 2, 3 and values coercible to them such as
\* "2 Stories" to that integer, maps an absent or non-finite input to 1, and
\* is idempotent.
C15_StoriesNormalization ==
  StoriesNormalized =>
    /\ req.stories \in {Num(W(1)), Num(W(2)), Num(W(3)), NumStr(W(2)), NumText(W(2))} =>
         stories = req.stories.n
    /\ req.stories \in {Undef, Text} => stories = W(1)
    /\ stories # None => normalizeStoriesOf(variant, Num(stories)) = stories
    /\ stories \in {W(1), W(2), W(3)}

\* a value that is not undefined, not null and not the empty string
NonEmptyValue(v) == v.k \notin {"undef", "null", "empty"}

\* the payload {customData: {squares: 12}, squares: 99}
NestedAndRootSquares ==
  <<[key |-> "customData", val |-> Object,
     sub |-> <<[key |-> "squares", val |-> Num(W(12))]>>],
    [key |-> "squares", val |-> Num(W(99)), sub |-> <<>>]>>

\* C16: when the payload has a non-empty root key equal to the first alias,
\* resolveField returns that root value whatever nested keys match too;
\* {customData: {squares: 12}, squares: 99} resolves to 99.
C16_RootKeyWins ==
  resOut # NoResOut =>
    \A c \in {"roof2", "roof3"} :
      /\ NonEmptyValue(Property(resIn, squaresAliases[1])) =>
           resOut[c] = Property(resIn, squaresAliases[1])
      /\ resIn = NestedAndRootSquares => resOut[c] = Num(W(99))

C16_Witness ==
  /\ resIn = NestedAndRootSquares
  /\ resOut["roof2"] = Num(W(99))
  /\ resOut["roof3"] = Num(W(99))

\* the path matches the alias: its normalized form is the normalized alias or
\* ends with "." and the normalized alias
PathMatchesAlias(path, alias) ==
  LET n == normalize(path)
      t == normalize(Segments(alias))
  IN \/ n = t
     \/ /\ Len(n) > Len(t)
        /\ \A m \in 1..Len(t) : n[Len(n) - Len(t) + m] = t[m]

\* the candidate values of an alias: the exact root key first, then the
\* values of the matching flattened paths in their order
Candidates(body, alias) ==
  LET paths == flattenKeys_roof2(body)
      matching == SelectSeq(paths, LAMBDA p : PathMatchesAlias(p, alias))
  IN <<Property(body, alias)>> \o
     [j \in DOMAIN matching |-> getNestedValue_roof2(body, matching[j])]

\* the first non-empty candidate of the sequence, or undefined
FirstNonEmpty(cands) ==
  IF \E j \in DOMAIN cands : NonEmptyValue(cands[j])
  THEN cands[CHOOSE j \in DOMAIN cands :
               /\ NonEmptyValue(cands[j])
               /\ \A h \in 1..(j - 1) : ~NonEmptyValue(cands[h])]
  ELSE Undef

\* C17: resolveField walks the aliases in order and returns the first
\* candidate that is not undefined, null or ""; per alias the exact root key
\* comes first, then every matching flattened path; an earlier alias with a
\* non-empty candidate wins over every later alias; undefined is returned
\* only when no alias has a non-empty candidate.
C17_AliasPriority ==
  resOut # NoResOut =>
    \A c \in {"roof2", "roof3"} :
      LET first(i) == FirstNonEmpty(Candidates(resIn, squaresAliases[i]))
      IN /\ resOut[c] = Undef <=> \A i \in DOMAIN squaresAliases : first(i) = Undef
         /\ \A i \in DOMAIN squaresAliases :
              (first(i) # Undef /\ \A h \in 1..(i - 1) : first(h) = Undef) =>
                resOut[c] = first(i)

\* a nested match of the first alias wins over the root key of the second
C17_Witness ==
  /\ Len(resIn) = 2
  /\ resIn[1] = [key |-> "square", val |-> Num(W(7)), sub |-> <<>>]
  /\ resIn[2].key = "customData"
  /\ resIn[2].sub = <<[key |-> "squares", val |-> Num(W(12))]>>
  /\ resOut["roof2"] = Num(W(12))
  /\ resOut["roof3"] = Num(W(12))

\* C18: in every handler, a POST whose body is a string that is no JSON, or
\* is no JSON object, is answered with status 400 and an error message, and
\* nothing is measured, priced or written back for it.
C18_MalformedBodyRejected ==
  (variant # "none" /\ req.method = "POST" /\ req.body \in {"badjson", "null"}) =>
    /\ pc = "done"
    /\ respCount = 1
    /\ resp.status = 400
    /\ resp.err
    /\ calls = <<>>
    /\ total = None
    /\ crmValue = None

\* C19: in every handler, a request whose method is not POST is answered with
\* status 405, or with status 200 and ok:false, before anything is parsed,
\* measured, priced or written back.
C19_NonPostRejected ==
  (variant # "none" /\ req.method # "POST") =>
    /\ pc = "done"
    /\ respCount = 1
    /\ \/ resp.status = 405
       \/ resp.status = 200 /\ resp.ok = "false"
    /\ resp.mode \in {"method_not_allowed", "post_only"}
    /\ calls = <<>>
    /\ finalSquares = None
    /\ total = None
    /\ crmValue = None

\* the top-level catch of the handler answered the request
ExceptionCaught == pc = "done" /\ resp.mode \in {"error", "fallback"}

\* C20: in every handler, an unexpected exception is answered with status
\* 500 and a generic message; the response never carries the message or the
\* stack of the exception.
C20_InternalErrorGeneric ==
  ExceptionCaught =>
    /\ respCount = 1
    /\ resp.status = 500
    /\ resp.ok = "false"
    /\ resp.err
    /\ ~resp.detail

\* C21: every getResult(id) returns the record of the most recent accepted
\* POST that carried callbackId = id, and null when no POST with that id was
\* ever accepted
C21_LookupReturnsLastAccepted ==
  [][cbGot' # cbGot => cbGot'.val = cbAccepted'[cbGot'.id]]_vars

\* C30: a rejected callback (405, 400) leaves the result cache unchanged, and
\* an accepted POST changes what the cache holds for its own callbackId only:
\* the entry of every other id reads the same before and after
C30_CallbackFrame ==
  [][/\ cbRes'.status \in {400, 405} => latestResults' = latestResults
     /\ latestResults' # latestResults =>
          \A id \in LookupIds \ {cbReq'.callbackId} :
            Get(latestResults', id) = Get(latestResults, id)]_vars

\* the first field of the sequence fs that the body holds, as an address
FirstField(body, fs) ==
  LET held == {i \in 1..Len(fs) : fs[i] \in body}
  IN IF held = {} THEN <<>>
     ELSE <<fs[CHOOSE i \in held : \A j \in held : i <= j]>>

DirectFullAddress(body) ==
  FirstField(body, <<"full_address", "customData.full_address", "contact.full_address">>)

Street(body) == FirstField(body, <<"address1", "customData.address", "address">>)

City(body) == FirstField(body, <<"city">>)

State(body) == FirstField(body, <<"state">>)

PostalCode(body) == FirstField(body, <<"postal_code", "postalCode">>)

\* how many of city, state and postal code the body holds
OtherParts(body) ==
  Cardinality({p \in {City(body), State(body), PostalCode(body)} : p # <<>>})

BareAddress(body) ==
  FirstField(body, <<"customData.address", "address", "address1", "contact.address",
                     "contact.address1">>)

\* the address of the body by the stated rule
StatedAddress(body) ==
  IF DirectFullAddress(body) # <<>> THEN DirectFullAddress(body)
  ELSE IF Street(body) # <<>> /\ OtherParts(body) >= 2
  THEN Street(body) \o City(body) \o State(body) \o PostalCode(body)
  ELSE BareAddress(body)

\* C22: in every write-back handler the address is the direct full address
\* when there is one, else the address synthesized from a street and at least
\* two of city, state and postal code, else the first bare address field,
\* else absent
C22_AddressResolution ==
  addrOut # NoAddrOut =>
    \A c \in AddressCopies : addrOut.address[c] = StatedAddress(addrIn)

\* C28: buildFullAddress returns the synthesized address whenever the body
\* holds a street together with a city or together with a postal code, and
\* null when it holds no street
C28_StreetAndOnePartSuffice ==
  addrOut # NoAddrOut =>
    \A c \in BuildCopies :
      /\ (Street(addrIn) # <<>> /\ (City(addrIn) # <<>> \/ PostalCode(addrIn) # <<>>)) =>
           addrOut.built[c] =
             Street(addrIn) \o City(addrIn) \o State(addrIn) \o PostalCode(addrIn)
      /\ Street(addrIn) = <<>> => addrOut.built[c] = <<>>

\* the roof type by the stated rule: containment tested in the order metal,
\* tile, clay, asphalt / composition, and asphalt otherwise
StatedRoofType(val) ==
  IF val = RoofAbsent THEN "asphalt"
  ELSE LET text == Trim(ToLowerCase(val))
       IN IF Includes(text, "metal") THEN "metal"
          ELSE IF Includes(text, "tile") THEN "tile"
          ELSE IF Includes(text, "clay") THEN "clay"
          ELSE "asphalt"

\* the stated multipliers 1.0, 1.15 and 1.30, in hundredths
StatedMultiplier(st) == IF st = W(1) THEN 100 ELSE IF st = W(2) THEN 115 ELSE 130

\* C23: in the material-aware handler the roof type is one of asphalt, metal,
\* tile, clay by the stated rule, the base price and the story multiplier are
\* defined, and the total is round(finalSquares x base price x multiplier)
C23_MaterialPricing ==
  (variant = "p000" /\ total # None) =>
    /\ normalizeRoofType_p000(req.roofType) = StatedRoofType(req.roofType)
    /\ StatedRoofType(req.roofType) \in {"asphalt", "metal", "tile", "clay"}
    /\ price = BASE_PRICE_PER_SQUARE_p000(StatedRoofType(req.roofType))
    /\ price \notin {NaN, None}
    /\ stories \in {W(1), W(2), W(3)}
    /\ STORY_MULTIPLIER_p000(stories) = StatedMultiplier(stories)
    /\ total = W((((finalSquares \div 2) * (price \div 2) * StatedMultiplier(stories)) + 50)
                   \div 100)

\* a two-story clay-tile roof and a roof of an unlisted material were priced
C23_Witness ==
  /\ variant = "p000"
  /\ total # None
  /\ req.roofType \in {"Clay Tile", "Wood / Shake"}
  /\ stories = W(2)
  /\ resp.mode = "updated"

\* C24: a handler never responds twice, and when it has returned it has sent
\* exactly one response
C24_ExactlyOneResponse ==
  /\ respCount <= 1
  /\ pc = "done" => respCount = 1

\* C25: in the validating handler a request answered with status 400 has made
\* no outbound call
C25_ValidationBeforeCalls ==
  (variant = "roof2" /\ resp.status = 400) => calls = <<>>

\* the handler was handed a POST whose body parses and holds no contact id
NoContactId ==
  /\ variant \in WriteBackVariants
  /\ req.method = "POST"
  /\ req.body # "badjson"
  /\ ~Truthy(req.contactId)

\* C26: in the write-back handlers a request without a contact id is answered
\* 200, ok:false, "Missing contact_id" with no outbound call made, and every
\* CRM update is issued for a non-empty contact id
C26_MissingContactStopsRequest ==
  /\ NoContactId =>
       /\ pc = "done"
       /\ resp.status = 200
       /\ resp.ok = "false"
       /\ resp.mode = "missing_contact"
       /\ calls = <<>>
  /\ (variant \in WriteBackVariants /\ \E i \in 1..Len(calls) : calls[i] = "crm") =>
       Truthy(req.contactId)

\* the CRM update call was issued
CrmIssued == \E i \in 1..Len(calls) : calls[i] = "crm"

PerStoryPrice(st) ==
  IF st = W(2) THEN W(575) ELSE IF st = W(3) THEN W(650) ELSE W(500)

\* C29: the pricing-only handler answers every request, whatever its method
\* and body, with status 200 and the single key contact.total_estimate, whose
\* value is null or the positive product of final squares and per-story price
C29_DottedKeyOnly ==
  (variant = "p005a" /\ pc = "done") =>
    /\ respCount = 1
    /\ resp.status = 200
    /\ resp.mode \in {"dotted", "dotted_null"}
    /\ resp.ok = "absent" /\ ~resp.err /\ ~resp.detail
    /\ resp.mode = "dotted_null" => resp.total = None
    /\ resp.mode = "dotted" =>
         /\ resp.total \notin {None, NaN}
         /\ resp.total > 0
         /\ finalSquares > 0
         /\ resp.total = (finalSquares * PerStoryPrice(stories)) \div 2

\* a GET without squares was measured and priced at the two-story price
C29_Witness ==
  /\ variant = "p005a"
  /\ pc = "done"
  /\ req.method = "GET"
  /\ resp.mode = "dotted"
  /\ measured # None
  /\ resp.total = (finalSquares * W(575)) \div 2

\* a string body that is not JSON was answered with the null estimate
C29_WitnessMalformed ==
  /\ variant = "p005a"
  /\ req.body = "badjson"
  /\ resp.mode = "dotted_null"

====
